---- MODULE Spec2Model ----
(***************************************************************************)
(* jing-uninstall: the residue cleaner (core/cleaner.py), the uninstaller  *)
(* (core/uninstaller.py), the inventory scanner (core/scanner.py) and the  *)
(* coordinator that drives them (ui/main_window.py, ui/residue_dialog.py,  *)
(* ui/progress_dialog.py, ui/package_list.py).                             *)
(***************************************************************************)
EXTENDS Integers, Sequences, FiniteSets, TLC

\* ------------------------------------------------------------------ bounds
\* Longest list of residue entries handed to Cleaner.clean.
MaxFiles == 2
\* Most paths dpkg -L lists for a package.
MaxListed == 2
\* Packages on the host.
MaxPkgs == 1
\* Inventory scans started in one session.
MaxScans == 2

\* ------------------------------------------------------------ the file system
\* A path is identified by its number; a scan yields every path once.
Paths == 1..MaxFiles

\* What os.path.exists / isfile / islink / isdir see at a path.
\*   missing  : nothing there
\*   dangling : a symbolic link whose target is gone (exists() is False)
\*   special  : exists, but neither file, link nor directory (fifo, socket)
\*   file     : regular file or link to one;  dir : directory
Kinds == {"missing", "dangling", "special", "file", "dir"}

\* What a direct os.remove / shutil.rmtree by the current user does:
\* succeeds, raises PermissionError, or raises another OSError.
Direct == {"ok", "perm", "oserr"}

\* kind, w = os.access(path, W_OK), d = outcome of a direct removal.
FsRec ==
    {[kind |-> k, w |-> FALSE, d |-> "perm"] : k \in {"missing", "dangling", "special"}}
    \cup {[kind |-> k, w |-> TRUE, d |-> x] : k \in {"file", "dir"}, x \in Direct}
    \cup {[kind |-> k, w |-> FALSE, d |-> x] : k \in {"file", "dir"}, x \in {"ok", "perm"}}

Missing == [kind |-> "missing", w |-> FALSE, d |-> "perm"]

\* Outcome of one subprocess.run(['pkexec', 'rm', ...]): exit status 0,
\* exit status non-zero, an exception that is no PermissionError
\* (TimeoutExpired, FileNotFoundError), or PermissionError.
PrivOut == {"rc0", "rc1", "exc", "permerr"}

\* The recorded size of the entry for path p (distinct powers of two, so a
\* byte total identifies the entries it counts).
SizeOf(p) == 2 ^ (p - 1)

\* core/residue_scan.py ResidueFile: path, size, is_selected.
ResidueFile == {[path |-> p, size |-> SizeOf(p), is_selected |-> s] :
                    p \in Paths, s \in BOOLEAN}

VARIABLES
    fs,             \* Paths -> FsRec : the file system
    files,          \* the list handed to Cleaner.clean
    cpc,            \* position of the clean call: idle, loop, done
    run,            \* which call of clean this is: 0 (none), 1, 2 (the re-run)
    selected_files, \* clean's local list
    ci,             \* clean's loop index i (entries already handled)
    deleted_files,  \* clean's counter
    deleted_size,   \* clean's byte counter
    events,         \* what the current clean call did, in order
    results,        \* the _delete_path calls of the current clean call
    cret,           \* clean's return value, <<>> while none
    gone,           \* paths removed by earlier, finished clean calls
    single,         \* the clean_single call made, if any
    upkg,           \* the package handed to the uninstaller
    listed,         \* what dpkg -L prints for it: the kind of each path
    ucall,          \* the uninstaller call made: none, uninstall, force_remove
    ucmds,          \* the commands that call ran, in order, with outcomes
    uret,           \* what the call produced
    udeleted,       \* force_remove_package's counter
    installed,      \* names of the packages installed on the host
    lists,          \* the Python lists scan_all creates, by the scan that made them
    scanner_packages, \* which list MainWindow.scanner.packages refers to
    scans,          \* the ScanThreads started: position, own listings, list handed over
    nscans,         \* how many ScanThreads were started
    displayed,      \* which list MainWindow.packages / the table model refers to
    sel,            \* the Package objects whose is_selected is set
    btn_un,         \* uninstall_btn and force_uninstall_btn enabled
    btn_res,        \* scan_residue_btn enabled
    modal,          \* the modal dialog open: none, progress, residue, batch
    task,           \* the ProgressThread task of the progress dialog
    close_enabled,  \* ProgressDialog.close_btn enabled
    outcome,        \* per package name: how its last removal attempt ended
    dlg,            \* the residue / batch dialog: package, entries, scan delivered
    alive,          \* the application is running
    safe,           \* per path: the is_safe_to_delete flag of its entry
    kw,             \* a _generate_keywords call: identifier, position, keywords
    cls,            \* a _get_residue_type call: category, path, position, kind
    rscan,          \* a ResidueScanner.scan call: tree, identifier, position, entries
    inv,            \* a PackageScanner.scan_all call: host, request, position, output
    call            \* a call of a backend or utility function: inputs, position, result

cleanVars == <<fs, files, cpc, run, selected_files, ci, deleted_files,
               deleted_size, events, results, cret, gone, single>>

uninstVars == <<upkg, listed, ucall, ucmds, uret, udeleted>>

uiVars == <<installed, lists, scanner_packages, scans, nscans, displayed, sel,
            btn_un, btn_res, modal, task, close_enabled, outcome, dlg, alive>>

libVars == <<safe, kw, cls, rscan, inv, call>>

\* ------------------------------------------------------------ Cleaner
\* What a clean call does, in order: the reports it makes through
\* _report_progress and _report_error, and the removals it attempts.
\*   progress  : _report_progress(message, pct); path is the entry named, 0 if none
\*   error     : _report_error("无法删除：path")       (the call returned falsy)
\*   error_exc : _report_error("删除失败 path: e")     (the call raised)
\*   direct    : os.remove / shutil.rmtree
\*   priv      : subprocess.run(['pkexec', 'rm', ...]), with its outcome
Progress(p, pct) == [t |-> "progress", path |-> p, pct |-> pct, out |-> ""]
ErrorEv(kind, p) == [t |-> kind, path |-> p, pct |-> 0, out |-> ""]
DirectOp(p, o) == [t |-> "direct", path |-> p, pct |-> 0, out |-> o]
PrivOp(p, o) == [t |-> "priv", path |-> p, pct |-> 0, out |-> o]

\* The except PermissionError handler of _delete_path: one pkexec rm, whose
\* exceptions nothing catches.
PermissionHandler(p, o) ==
    [res  |-> IF o = "rc0" THEN "True" ELSE IF o = "rc1" THEN "False" ELSE "Raise",
     ops  |-> <<PrivOp(p, o)>>,
     gone |-> o = "rc0"]

\* The pkexec rm of the not-writable branch, inside the try block: a
\* PermissionError raised by subprocess.run enters the handler (a second
\* pkexec rm, outcome o2), any other exception returns False.
PrivilegedBranch(p, o1, o2) ==
    IF o1 = "permerr"
    THEN LET h == PermissionHandler(p, o2)
         IN  [h EXCEPT !.ops = <<PrivOp(p, o1)>> \o h.ops]
    ELSE [res  |-> IF o1 = "rc0" THEN "True" ELSE "False",
          ops  |-> <<PrivOp(p, o1)>>,
          gone |-> o1 = "rc0"]

\* os.remove / shutil.rmtree of the writable branch.
DirectBranch(p, f, o1) ==
    IF f.d = "ok"
    THEN [res |-> "True", ops |-> <<DirectOp(p, f.d)>>, gone |-> TRUE]
    ELSE IF f.d = "perm"
    THEN LET h == PermissionHandler(p, o1)
         IN  [h EXCEPT !.ops = <<DirectOp(p, f.d)>> \o h.ops]
    ELSE [res |-> "False", ops |-> <<DirectOp(p, f.d)>>, gone |-> FALSE]

\* Mutant of delete_path: no os.path.exists test, so a missing path falls
\* through both branches.
delete_path_unchecked(p, f, o1, o2) ==
    IF f.kind = "dangling"
    THEN [res |-> "True", ops |-> <<>>, gone |-> FALSE]
    ELSE IF f.kind \in {"file", "dir"}
    THEN IF f.w THEN DirectBranch(p, f, o1) ELSE PrivilegedBranch(p, o1, o2)
    ELSE [res |-> "None", ops |-> <<>>, gone |-> FALSE]

\* Cleaner._delete_path(path) with the file system entry f at the path and
\* the outcomes o1, o2 of the pkexec commands it may run. res is what the
\* call produces: "True", "False", "None" (no return statement reached) or
\* "Raise" (an exception leaves the call); ops are the removals attempted.
delete_path(p, f, o1, o2) ==
    IF f.kind \in {"missing", "dangling"}
    THEN [res |-> "True", ops |-> <<>>, gone |-> FALSE]
    ELSE IF f.kind \in {"file", "dir"}
    THEN IF f.w THEN DirectBranch(p, f, o1) ELSE PrivilegedBranch(p, o1, o2)
    ELSE [res |-> "None", ops |-> <<>>, gone |-> FALSE]

\* One call of _delete_path as the model records it.
Call(p, f, r) == [path |-> p, before |-> f, res |-> r.res, ops |-> r.ops]

\* int((i / total_files) * 100)
Percent(i, total) == (i * 100) \div total

\* Mutant of Selected: the selection filter is dropped.
SelectedUnfiltered(fl) == fl

\* Mutant of Selected: entries flagged as unsafe are held back.
SelectedSafeOnly(fl) == SelectSeq(fl, LAMBDA f : f.is_selected /\ safe[f.path])

\* selected_files = [f for f in files if f.is_selected]
Selected(fl) == SelectSeq(fl, LAMBDA f : f.is_selected)

\* Mutant of StartEvents: the first report is made before the empty check.
StartEventsEager(total) == <<Progress(0, 0)>>

\* The report clean makes before its loop: none when nothing is selected.
StartEvents(total) == IF total = 0 THEN <<>> ELSE <<Progress(0, 0)>>

\* Mutant of StepErrors: an exception is swallowed without a report.
StepErrorsSilent(res, p) ==
    IF res \in {"True", "Raise"} THEN <<>> ELSE <<ErrorEv("error", p)>>

\* The loop body's reaction to the outcome of _delete_path: a falsy return
\* and an exception each report one error.
StepErrors(res, p) ==
    IF res = "True" THEN <<>>
    ELSE IF res = "Raise" THEN <<ErrorEv("error_exc", p)>>
    ELSE <<ErrorEv("error", p)>>

\* clean(files) up to the loop: filter, the empty case, the first report.
CleanStart ==
    /\ cpc \in {"idle", "done"}
    /\ run < 2
    /\ single.res = "none"
    /\ run' = run + 1
    /\ gone' = gone \cup {results[i].path : i \in {j \in DOMAIN results :
                              fs[results[j].path].kind = "missing"
                              /\ results[j].ops # <<>>}}
    /\ selected_files' = Selected(files)
    /\ ci' = 0
    /\ deleted_files' = 0
    /\ deleted_size' = 0
    /\ results' = <<>>
    /\ events' = StartEvents(Len(Selected(files)))
    /\ IF Len(Selected(files)) = 0
       THEN /\ cret' = <<TRUE, 0, 0>>
            /\ cpc' = "done"
       ELSE /\ cret' = <<>>
            /\ cpc' = "loop"
    /\ UNCHANGED <<fs, files, single>>

\* One iteration of clean's loop over selected_files.
CleanStep ==
    /\ cpc = "loop"
    /\ ci < Len(selected_files)
    /\ \E o1 \in PrivOut, o2 \in PrivOut :
         LET rf == selected_files[ci + 1]
             r  == delete_path(rf.path, fs[rf.path], o1, o2)
         IN  /\ events' = events
                    \o <<Progress(rf.path, Percent(ci, Len(selected_files)))>>
                    \o r.ops
                    \o StepErrors(r.res, rf.path)
             /\ results' = Append(results, Call(rf.path, fs[rf.path], r))
             /\ deleted_files' = IF r.res = "True" THEN deleted_files + 1 ELSE deleted_files
             /\ deleted_size' = IF r.res = "True" THEN deleted_size + rf.size ELSE deleted_size
             /\ fs' = IF r.gone THEN [fs EXCEPT ![rf.path] = Missing] ELSE fs
    /\ ci' = ci + 1
    /\ UNCHANGED <<files, cpc, run, selected_files, cret, gone, single>>

\* The end of clean: the last report and the return.
CleanFinish ==
    /\ cpc = "loop"
    /\ ci = Len(selected_files)
    /\ events' = events \o <<Progress(0, 100)>>
    /\ cret' = <<TRUE, deleted_files, deleted_size>>
    /\ cpc' = "done"
    /\ UNCHANGED <<fs, files, run, selected_files, ci, deleted_files,
                   deleted_size, results, gone, single>>

NoSingle == [path |-> 0, before |-> Missing, res |-> "none", ops |-> <<>>]

\* clean_single(path): _delete_path and nothing else.
CleanSingle ==
    /\ cpc = "idle"
    /\ single.res = "none"
    /\ \E p \in Paths, o1 \in PrivOut, o2 \in PrivOut :
         LET r == delete_path(p, fs[p], o1, o2)
         IN  /\ single' = Call(p, fs[p], r)
             /\ fs' = IF r.gone THEN [fs EXCEPT ![p] = Missing] ELSE fs
    /\ UNCHANGED <<files, cpc, run, selected_files, ci, deleted_files,
                   deleted_size, events, results, cret, gone>>

\* The lists handed to clean: entries with distinct paths, as one residue
\* scan yields them. Paths are interchangeable names, so entry i names path i.
FileLists ==
    UNION {{fl \in [1..n -> ResidueFile] : \A i \in 1..n : fl[i].path = i}
           : n \in 0..MaxFiles}

CleanIdle ==
    /\ fs = [p \in Paths |-> Missing]
    /\ files = <<>>
    /\ cpc = "idle"
    /\ run = 0
    /\ selected_files = <<>>
    /\ ci = 0
    /\ deleted_files = 0
    /\ deleted_size = 0
    /\ events = <<>>
    /\ results = <<>>
    /\ cret = <<>>
    /\ gone = {}
    /\ single = NoSingle

\* ------------------------------------------------------------ Uninstaller
\* core/scanner.py PackageSource
Sources == {"APT", "Snap", "Flatpak", "AppImage"}

\* Outcome of one subprocess.run: exit status 0, exit status non-zero,
\* TimeoutExpired, FileNotFoundError (the tool is missing), PermissionError.
RunOut == {"rc0", "rc1", "timeout", "notfound", "permerr"}
Raises(o) == o \notin {"rc0", "rc1"}

\* The file an AppImage package names: absent, or present with the outcome
\* a direct os.remove has.
AppFiles == {"absent"} \cup Direct

\* What dpkg -L lists: a regular file, an empty directory, a directory with
\* entries, or a line that names neither (a vanished path, the empty line).
ListedKinds == {"file", "emptydir", "dir", "other"}

Cmd(c, o) == [cmd |-> c, out |-> o]
\* (success flag, message) as a call returns it; what says how the call
\* ended: "pair" (a tuple returned) or "raise" (an exception left it).
Pair(ok) == [what |-> "pair", ok |-> ok]
Raised == [what |-> "raise", ok |-> FALSE]
NoRet == [what |-> "none", ok |-> FALSE]
Outcome(ret, cmds) == [ret |-> ret, cmds |-> cmds]
\* result.returncode == 0 decides the pair
ByExit(o) == Pair(o = "rc0")

\* _uninstall_apt: systemctl stop inside try/except-pass, then the removal
\* and the autoremove through _run_pkexec_command, whose exceptions leave
\* the function.
uninstall_apt(force, o_stop, o_rm, o_auto) ==
    LET rm == IF force THEN "apt_purge" ELSE "apt_remove"
        first == <<Cmd("systemctl_stop", o_stop), Cmd(rm, o_rm)>>
    IN  IF Raises(o_rm) THEN Outcome(Raised, first)
        ELSE IF Raises(o_auto)
        THEN Outcome(Raised, first \o <<Cmd("apt_autoremove", o_auto)>>)
        ELSE Outcome(ByExit(o_rm), first \o <<Cmd("apt_autoremove", o_auto)>>)

\* _uninstall_snap
uninstall_snap(o1) ==
    IF Raises(o1) THEN Outcome(Raised, <<Cmd("snap_remove", o1)>>)
    ELSE Outcome(ByExit(o1), <<Cmd("snap_remove", o1)>>)

\* _uninstall_flatpak: the plain command, and the pkexec one if it exits
\* non-zero.
uninstall_flatpak(o1, o2) ==
    IF Raises(o1) THEN Outcome(Raised, <<Cmd("flatpak_uninstall", o1)>>)
    ELSE IF o1 = "rc0" THEN Outcome(ByExit(o1), <<Cmd("flatpak_uninstall", o1)>>)
    ELSE LET both == <<Cmd("flatpak_uninstall", o1), Cmd("pkexec_flatpak_uninstall", o2)>>
         IN  IF Raises(o2) THEN Outcome(Raised, both) ELSE Outcome(ByExit(o2), both)

\* _uninstall_appimage
uninstall_appimage(appfile, o1) ==
    IF appfile = "absent" THEN Outcome(Pair(FALSE), <<>>)
    ELSE IF appfile = "ok" THEN Outcome(Pair(TRUE), <<Cmd("os_remove", "ok")>>)
    ELSE IF appfile = "oserr" THEN Outcome(Raised, <<Cmd("os_remove", "oserr")>>)
    ELSE LET both == <<Cmd("os_remove", "perm"), Cmd("pkexec_rm", o1)>>
         IN  IF Raises(o1) THEN Outcome(Raised, both) ELSE Outcome(ByExit(o1), both)

\* uninstall(package, force): the dispatch on package.source inside
\* try/except Exception, which turns an exception into (False, message).
uninstall(pkg, force, o1, o2, o3) ==
    LET r == IF pkg.source = "APT" THEN uninstall_apt(force, o1, o2, o3)
             ELSE IF pkg.source = "Snap" THEN uninstall_snap(o1)
             ELSE IF pkg.source = "Flatpak" THEN uninstall_flatpak(o1, o2)
             ELSE uninstall_appimage(pkg.appfile, o1)
    IN  IF r.ret.what = "raise" THEN Outcome(Pair(FALSE), r.cmds) ELSE r

RECURSIVE ForceLoop(_, _, _)
\* The loop of force_remove_package over the listed paths, from index i:
\* a pkexec rm -f for a file, a pkexec rmdir for an empty directory, each
\* inside try/except-pass and counted when the command did not raise.
ForceLoop(ls, outs, i) ==
    IF i > Len(ls) THEN [cmds |-> <<>>, deleted |-> 0]
    ELSE LET rest == ForceLoop(ls, outs, i + 1)
         IN  IF ls[i] \in {"file", "emptydir"}
             THEN [cmds    |-> <<Cmd(IF ls[i] = "file" THEN "pkexec_rm" ELSE "pkexec_rmdir",
                                     outs[i])>> \o rest.cmds,
                   deleted |-> (IF Raises(outs[i]) THEN 0 ELSE 1) + rest.deleted]
             ELSE rest

\* force_remove_package(package)
force_remove_package(pkg, ls, o_list, outs, o_dpkg) ==
    IF pkg.source # "APT" THEN [ret |-> Pair(FALSE), cmds |-> <<>>, deleted |-> 0]
    ELSE IF Raises(o_list)
    THEN [ret |-> Pair(FALSE), cmds |-> <<Cmd("dpkg_L", o_list)>>, deleted |-> 0]
    ELSE LET loop == IF o_list = "rc0" THEN ForceLoop(ls, outs, 1)
                     ELSE [cmds |-> <<>>, deleted |-> 0]
         IN  [ret     |-> Pair(~Raises(o_dpkg)),
              cmds    |-> <<Cmd("dpkg_L", o_list)>> \o loop.cmds
                              \o <<Cmd("pkexec_dpkg_remove", o_dpkg)>>,
              deleted |-> loop.deleted]

\* A caller invokes uninstall(upkg, force).
Uninstall ==
    /\ ucall = "none"
    /\ \E force \in BOOLEAN, o1 \in RunOut, o2 \in RunOut, o3 \in RunOut :
         LET r == uninstall(upkg, force, o1, o2, o3)
         IN  /\ ucmds' = r.cmds
             /\ uret' = r.ret
    /\ ucall' = "uninstall"
    /\ UNCHANGED <<upkg, listed, udeleted, cleanVars>>

\* A caller invokes force_remove_package(upkg).
ForceRemove ==
    /\ ucall = "none"
    /\ \E o_list \in RunOut, o_dpkg \in RunOut, outs \in [DOMAIN listed -> RunOut] :
         LET r == force_remove_package(upkg, listed, o_list, outs, o_dpkg)
         IN  /\ ucmds' = r.cmds
             /\ uret' = r.ret
             /\ udeleted' = r.deleted
    /\ ucall' = "force_remove"
    /\ UNCHANGED <<upkg, listed, cleanVars>>

UninstIdle ==
    /\ upkg = [source |-> "APT", appfile |-> "absent"]
    /\ listed = <<>>
    /\ ucall = "none"
    /\ ucmds = <<>>
    /\ uret = NoRet
    /\ udeleted = 0

\* ------------------------------------------------------------ coordinator
PkgNames == 1..MaxPkgs
\* The ecosystem a package of the host belongs to.
SourceOf(n) == IF n % 2 = 1 THEN "APT" ELSE "Snap"
\* Which package a residue path belongs to (whose keyword its name holds).
PkgOfPath(p) == ((p - 1) % MaxPkgs) + 1

\* A Package object: made by one scan for one installed package.
PkgObj(n, t) == [name |-> n, scan |-> t]

\* The order in which scan_all visits the sources, and the return after.
NextSource(src) ==
    CASE src = "APT" -> "Snap"
      [] src = "Snap" -> "Flatpak"
      [] src = "Flatpak" -> "AppImage"
      [] src = "AppImage" -> "ret"

\* What the backend of src lists in scan t: a fresh Package per installed one.
Listing(src, t) ==
    LET names == SelectSeq([i \in 1..MaxPkgs |-> i],
                           LAMBDA n : n \in installed /\ SourceOf(n) = src)
    IN  [i \in DOMAIN names |-> PkgObj(names[i], t)]

\* No task; reply and paths record the answer to "确认清理" that a cleanup
\* task came from and what was selected in the dialog then.
NoTask ==
    [kind |-> "none", forced |-> FALSE, pkgs |-> <<>>, i |-> 0, state |-> "none",
     reply |-> "none", paths |-> {}]
NoDlg == [pkg |-> 0, files |-> <<>>, scanned |-> FALSE]

\* The selected packages of the table model, in list order.
DisplayedSelected == SelectSeq(lists[displayed], LAMBDA o : o \in sel)

\* _on_selection_changed as reached from load_packages / mousePressEvent:
\* the buttons follow the selection of the list shown.
SelectionButtons(shown, chosen) ==
    LET n == Len(SelectSeq(shown, LAMBDA o : o \in chosen))
    IN  /\ btn_un' = (n > 0)
        /\ btn_res' = (n = 1)

\* _start_scan: the buttons are disabled and a ScanThread over the one
\* shared PackageScanner is started.
StartScanBody ==
    /\ nscans < MaxScans
    /\ nscans' = nscans + 1
    /\ scans' = [scans EXCEPT ![nscans + 1].pc = "begin"]
    /\ btn_un' = FALSE
    /\ btn_res' = FALSE

\* The timer of __init__, the refresh button or F5.
StartScan ==
    /\ alive
    /\ modal = "none"
    /\ StartScanBody
    /\ UNCHANGED <<installed, lists, scanner_packages, displayed, sel, modal, task,
                   close_enabled, outcome, dlg, alive>>

\* The lists some reference still reaches once d is shown, sp is the
\* scanner's and the threads are at sc: those two and the ones queued.
Live(d, sp, sc) == {d, sp} \cup {sc[t].result : t \in {u \in 1..MaxScans : sc[u].pc = "queued"}}

\* The objects held by the lists ls.
Held(ls, ids) == UNION {{ls[l][i] : i \in DOMAIN ls[l]} : l \in ids}

\* The lists after the unreachable ones were freed.
Freed(ls, ids) == [l \in DOMAIN ls |-> IF l \in ids THEN ls[l] ELSE <<>>]

\* The list scan t appends to: the one self.packages refers to now.
Accumulator(t) == scanner_packages

\* scan_all, first statement: self.packages = []
ScanBegin(t) ==
    /\ alive
    /\ scans[t].pc = "begin"
    /\ scanner_packages' = t
    /\ scans' = [scans EXCEPT ![t].pc = "APT"]
    /\ LET ids == Live(displayed, scanner_packages', scans')
       IN  /\ lists' = Freed([lists EXCEPT ![t] = <<>>], ids)
           /\ sel' = sel \cap Held(lists', ids)
    /\ UNCHANGED <<installed, nscans, displayed, btn_un, btn_res, modal, task,
                   close_enabled, outcome, dlg, alive>>

\* scan_all, one source: self.packages.extend(<the backend's listing>)
ScanSource(t) ==
    /\ alive
    /\ scans[t].pc \in Sources
    /\ LET got == Listing(scans[t].pc, t)
       IN  /\ lists' = [lists EXCEPT ![Accumulator(t)] = @ \o got]
           /\ scans' = [scans EXCEPT ![t].pc = NextSource(@), ![t].own = @ \o got]
    /\ UNCHANGED <<installed, scanner_packages, nscans, displayed, sel, btn_un,
                   btn_res, modal, task, close_enabled, outcome, dlg, alive>>

\* scan_all returns self.packages and ScanThread.run emits scan_complete
\* with it (a queued connection: the handler runs later).
ScanReturn(t) ==
    /\ alive
    /\ scans[t].pc = "ret"
    /\ scans' = [scans EXCEPT ![t].pc = "queued", ![t].result = Accumulator(t)]
    /\ UNCHANGED <<installed, lists, scanner_packages, nscans, displayed, sel, btn_un,
                   btn_res, modal, task, close_enabled, outcome, dlg, alive>>

RECURSIVE AllListings(_, _)
\* What scan_all collects from src on: the listings of the sources in order.
AllListings(src, t) ==
    IF src = "ret" THEN <<>> ELSE Listing(src, t) \o AllListings(NextSource(src), t)

\* ScanThread.run as one step, for the specification that does not look at
\* how scan threads interleave with each other: scan_all makes its list,
\* fills it from the four sources and hands it over.
ScanRun(t) ==
    /\ alive
    /\ scans[t].pc = "begin"
    /\ scanner_packages' = t
    /\ scans' = [scans EXCEPT ![t].pc = "queued", ![t].own = AllListings("APT", t),
                              ![t].result = t]
    /\ LET ids == Live(displayed, scanner_packages', scans')
       IN  /\ lists' = Freed([lists EXCEPT ![t] = AllListings("APT", t)], ids)
           /\ sel' = sel \cap Held(lists', ids)
    /\ UNCHANGED <<installed, nscans, displayed, btn_un, btn_res, modal, task,
                   close_enabled, outcome, dlg, alive>>

\* _on_scan_complete(packages): the list is kept and loaded into the table,
\* which emits selection_changed.
OnScanComplete(t) ==
    /\ alive
    /\ scans[t].pc = "queued"
    /\ scans' = [scans EXCEPT ![t].pc = "done"]
    /\ displayed' = scans[t].result
    /\ SelectionButtons(lists[scans[t].result], sel)
    /\ LET ids == Live(displayed', scanner_packages, scans')
       IN  /\ lists' = Freed(lists, ids)
           /\ sel' = sel \cap Held(lists, ids)
    /\ UNCHANGED <<installed, scanner_packages, nscans, modal, task,
                   close_enabled, outcome, dlg, alive>>

\* PackageListWidget.mousePressEvent on the checkbox column of a row.
Toggle(o) ==
    /\ alive
    /\ modal = "none"
    /\ \E i \in DOMAIN lists[displayed] : lists[displayed][i] = o
    /\ sel' = IF o \in sel THEN sel \ {o} ELSE sel \cup {o}
    /\ SelectionButtons(lists[displayed], sel')
    /\ UNCHANGED <<installed, lists, scanner_packages, scans, nscans, displayed,
                   modal, task, close_enabled, outcome, dlg, alive>>

\* The objects of the list shown.
Shown == {lists[displayed][i] : i \in DOMAIN lists[displayed]}

\* PackageListWidget.select_all, deselect_all and invert_selection (the
\* edit menu): every row of the list shown is set, cleared or flipped.
MenuSelect(how) ==
    /\ alive
    /\ modal = "none"
    /\ sel' = CASE how = "all" -> sel \cup Shown
                [] how = "none" -> sel \ Shown
                [] how = "invert" -> (sel \ Shown) \cup (Shown \ sel)
    /\ SelectionButtons(lists[displayed], sel')
    /\ UNCHANGED <<installed, lists, scanner_packages, scans, nscans, displayed,
                   modal, task, close_enabled, outcome, dlg, alive>>

\* _uninstall_selected / _force_uninstall_selected, answered Yes: the
\* progress dialog opens and its thread gets the selected packages.
UninstallSelected(forced) ==
    /\ alive
    /\ modal = "none"
    /\ btn_un
    /\ DisplayedSelected # <<>>
    /\ task' = [NoTask EXCEPT !.kind = "uninstall", !.forced = forced,
                                !.pkgs = DisplayedSelected, !.state = "running"]
    /\ modal' = "progress"
    /\ close_enabled' = FALSE
    /\ UNCHANGED <<installed, lists, scanner_packages, scans, nscans, displayed, sel,
                   btn_un, btn_res, outcome, dlg, alive>>

\* Whether the commands of a removal took the package off the host.
TakenOff(cmds) ==
    \E k \in DOMAIN cmds :
        /\ cmds[k].cmd \in {"apt_remove", "apt_purge", "snap_remove", "flatpak_uninstall",
                            "pkexec_flatpak_uninstall", "pkexec_dpkg_remove"}
        /\ cmds[k].out = "rc0"

\* The body of the loop of uninstall_task / force_uninstall_task for one
\* package: the flag shown to the user and whether the package left the host.
Attempt(n, forced, o1, o2, o3) ==
    LET pkg == [source |-> SourceOf(n), appfile |-> "absent"]
        r   == IF forced /\ pkg.source = "APT"
               THEN force_remove_package(pkg, <<>>, o1, <<>>, o2)
               ELSE uninstall(pkg, forced, o1, o2, o3)
    IN  [ok |-> r.ret.ok, off |-> TakenOff(r.cmds)]

\* Every way the removal of a package can end, over the outcomes of the
\* commands it runs.
Attempts ==
    [n \in PkgNames |-> [forced \in BOOLEAN |->
        {Attempt(n, forced, o1, o2, o3) : o1 \in RunOut, o2 \in RunOut, o3 \in RunOut}]]

\* One iteration of uninstall_task / force_uninstall_task in the worker.
TaskStep ==
    /\ alive
    /\ task.kind = "uninstall"
    /\ task.state = "running"
    /\ task.i < Len(task.pkgs)
    /\ LET n == task.pkgs[task.i + 1].name
       IN  \E r \in Attempts[n][task.forced] :
              /\ outcome' = [outcome EXCEPT ![n] = IF r.ok THEN "removed" ELSE "failed"]
              /\ installed' = IF r.off THEN installed \ {n} ELSE installed
    /\ task' = [task EXCEPT !.i = @ + 1]
    /\ UNCHANGED <<lists, scanner_packages, scans, nscans, displayed, sel, btn_un,
                   btn_res, modal, close_enabled, dlg, alive>>

\* ProgressThread emits task_complete and _on_task_complete enables the
\* close button.
OnTaskComplete ==
    /\ alive
    /\ task.state = "running"
    /\ \/ task.kind = "uninstall" /\ task.i = Len(task.pkgs)
       \/ task.kind = "clean" /\ cpc = "done"
    /\ task' = [task EXCEPT !.state = "complete"]
    /\ close_enabled' = TRUE
    /\ UNCHANGED <<installed, lists, scanner_packages, scans, nscans, displayed, sel,
                   btn_un, btn_res, modal, outcome, dlg, alive>>

\* The close button of the progress dialog of a removal, enabled once the
\* task is complete: finished is connected to _on_uninstall_finished, which
\* calls _start_scan. (Dismissing the dialog through the window manager
\* while the task runs is left out.)
CloseUninstallProgress ==
    /\ alive
    /\ modal = "progress"
    /\ close_enabled
    /\ task.kind = "uninstall"
    /\ modal' = "none"
    /\ task' = NoTask
    /\ close_enabled' = FALSE
    /\ StartScanBody
    /\ UNCHANGED <<installed, lists, scanner_packages, displayed, sel, outcome, dlg, alive>>

\* The close button of the progress dialog of a cleanup: nothing follows,
\* and the dialog, its thread and the Cleaner it made are dropped.
CloseCleanProgress ==
    /\ alive
    /\ modal = "progress"
    /\ close_enabled
    /\ task.kind = "clean"
    /\ modal' = "none"
    /\ task' = NoTask
    /\ close_enabled' = FALSE
    /\ files' = <<>>
    /\ cpc' = "idle"
    /\ selected_files' = <<>>
    /\ ci' = 0
    /\ deleted_files' = 0
    /\ deleted_size' = 0
    /\ events' = <<>>
    /\ results' = <<>>
    /\ cret' = <<>>
    /\ gone' = {}
    /\ UNCHANGED <<fs, run, single>>
    /\ UNCHANGED <<installed, lists, scanner_packages, scans, nscans, displayed, sel,
                   btn_un, btn_res, outcome, dlg, alive>>

\* ResidueScanner.scan(name) on the present file system: the existing paths
\* of the package, every entry selected.
ResidueScan(n) ==
    LET ps == SelectSeq([i \in 1..MaxFiles |-> i],
                        LAMBDA p : PkgOfPath(p) = n /\ fs[p].kind # "missing")
    IN  [i \in DOMAIN ps |-> [path |-> ps[i], size |-> SizeOf(ps[i]), is_selected |-> TRUE]]

\* _scan_residue_selected: the residue dialog of the one selected package.
ScanResidueSelected ==
    /\ alive
    /\ modal = "none"
    /\ btn_res
    /\ Len(DisplayedSelected) = 1
    /\ dlg' = [pkg |-> DisplayedSelected[1].name, files |-> <<>>, scanned |-> FALSE]
    /\ modal' = "residue"
    /\ UNCHANGED <<installed, lists, scanner_packages, scans, nscans, displayed, sel,
                   btn_un, btn_res, task, close_enabled, outcome, alive>>

\* ResidueDialog._on_scan_complete: the result of ResidueScanThread is shown.
ResidueScanComplete ==
    /\ alive
    /\ modal = "residue"
    /\ ~dlg.scanned
    /\ dlg' = [dlg EXCEPT !.files = ResidueScan(dlg.pkg), !.scanned = TRUE]
    /\ UNCHANGED <<installed, lists, scanner_packages, scans, nscans, displayed, sel,
                   btn_un, btn_res, modal, task, close_enabled, outcome, alive>>

\* _on_checkbox_changed of either dialog.
DialogToggle(i) ==
    /\ alive
    /\ modal \in {"residue", "batch"}
    /\ i \in DOMAIN dlg.files
    /\ dlg' = [dlg EXCEPT !.files[i].is_selected = ~@]
    /\ UNCHANGED <<installed, lists, scanner_packages, scans, nscans, displayed, sel,
                   btn_un, btn_res, modal, task, close_enabled, outcome, alive>>

\* _toggle_select_all of either dialog: all entries cleared if all were
\* checked, all checked otherwise.
DialogToggleAll ==
    /\ alive
    /\ modal \in {"residue", "batch"}
    /\ dlg.files # <<>>
    /\ LET all_selected == \A i \in DOMAIN dlg.files : dlg.files[i].is_selected
       IN  dlg' = [dlg EXCEPT !.files = [i \in DOMAIN dlg.files |->
                                           [dlg.files[i] EXCEPT !.is_selected = ~all_selected]]]
    /\ UNCHANGED <<installed, lists, scanner_packages, scans, nscans, displayed, sel,
                   btn_un, btn_res, modal, task, close_enabled, outcome, alive>>

\* The cancel button of the residue dialog.
ResidueCancel ==
    /\ alive
    /\ modal = "residue"
    /\ modal' = "none"
    /\ dlg' = NoDlg
    /\ UNCHANGED <<installed, lists, scanner_packages, scans, nscans, displayed, sel,
                   btn_un, btn_res, task, close_enabled, outcome, alive>>

\* The paths whose checkbox is set in a dialog.
CheckedPaths(fl) == {fl[i].path : i \in {k \in DOMAIN fl : fl[k].is_selected}}

\* Mutant of ShouldEmit: the answer to the question is not looked at.
ShouldEmitAlways(reply) == TRUE

\* ResidueDialog._on_clean: if reply == QMessageBox.StandardButton.Yes
ShouldEmit(reply) == reply = "yes"

\* ResidueDialog._on_clean with a non-empty selection and the answer to
\* "确认清理"; Yes closes the dialog and emits clean_confirmed(selected), on
\* which _clean_residue opens a progress dialog whose thread calls
\* Cleaner().clean(files).
OnClean(reply) ==
    /\ alive
    /\ modal = "residue"
    /\ Selected(dlg.files) # <<>>
    /\ run < 2
    /\ IF ShouldEmit(reply)
       THEN /\ modal' = "progress"
            /\ dlg' = NoDlg
            /\ task' = [NoTask EXCEPT !.kind = "clean", !.state = "pending",
                                      !.reply = reply, !.paths = CheckedPaths(dlg.files)]
            /\ close_enabled' = FALSE
            /\ files' = Selected(dlg.files)
            /\ cpc' = "idle"
       ELSE UNCHANGED <<modal, dlg, task, close_enabled, files, cpc>>
    /\ UNCHANGED <<installed, lists, scanner_packages, scans, nscans, displayed, sel,
                   btn_un, btn_res, outcome, alive>>
    /\ UNCHANGED <<fs, run, selected_files, ci, deleted_files, deleted_size, events,
                   results, cret, gone, single>>

RECURSIVE ScanEach(_, _)
\* The loop of _batch_clean: scanner.scan(package.name) for each package.
ScanEach(pkgs, i) ==
    IF i > Len(pkgs) THEN <<>> ELSE ResidueScan(pkgs[i].name) \o ScanEach(pkgs, i + 1)

\* _batch_clean up to dialog.exec(): the residue of every selected package
\* is collected and shown in a BatchCleanDialog.
BatchClean ==
    /\ alive
    /\ modal = "none"
    /\ DisplayedSelected # <<>>
    /\ ScanEach(DisplayedSelected, 1) # <<>>
    /\ dlg' = [pkg |-> 0, files |-> ScanEach(DisplayedSelected, 1), scanned |-> TRUE]
    /\ modal' = "batch"
    /\ UNCHANGED <<installed, lists, scanner_packages, scans, nscans, displayed, sel,
                   btn_un, btn_res, task, close_enabled, outcome, alive>>

\* _batch_clean after dialog.exec() returned, accepted (BatchCleanDialog
\* ._on_clean answered Yes) or rejected: the comparison names QDialog, which
\* main_window.py does not import, so NameError ends the handler before any
\* clean; the exception leaves a slot, on which the application goes on or
\* is aborted.
BatchClose(reply) ==
    /\ alive
    /\ modal = "batch"
    /\ reply = "yes" => Selected(dlg.files) # <<>>
    /\ modal' = "none"
    /\ dlg' = NoDlg
    /\ alive' \in BOOLEAN
    /\ UNCHANGED <<installed, lists, scanner_packages, scans, nscans, displayed, sel,
                   btn_un, btn_res, task, close_enabled, outcome>>

\* The worker of a cleanup task runs clean(files).
WorkerCleanStart ==
    /\ alive
    /\ task.kind = "clean"
    /\ task.state = "pending"
    /\ CleanStart
    /\ task' = [task EXCEPT !.state = "running"]
    /\ UNCHANGED <<installed, lists, scanner_packages, scans, nscans, displayed, sel,
                   btn_un, btn_res, modal, close_enabled, outcome, dlg, alive>>

UiIdle ==
    /\ installed = PkgNames
    /\ lists = [t \in 0..MaxScans |-> <<>>]
    /\ scanner_packages = 0
    /\ scans = [t \in 1..MaxScans |->
                  [pc |-> "idle", own |-> <<>>, result |-> 0]]
    /\ nscans = 0
    /\ displayed = 0
    /\ sel = {}
    /\ btn_un = TRUE
    /\ btn_res = TRUE
    /\ modal = "none"
    /\ task = NoTask
    /\ close_enabled = FALSE
    /\ outcome = [n \in PkgNames |-> "none"]
    /\ dlg = NoDlg
    /\ alive = TRUE

\* ------------------------------------------------------------ strings
\* A Python str is the sequence of its characters.
\* str.lower / str.upper on the characters in use: ASCII letters change case,
\* every other character is kept.
Lower(c) ==
    CASE c = "A" -> "a" [] c = "B" -> "b" [] c = "F" -> "f" [] c = "G" -> "g"
      [] c = "L" -> "l" [] c = "O" -> "o" [] c = "R" -> "r" [] OTHER -> c

Upper(c) ==
    CASE c = "a" -> "A" [] c = "b" -> "B" [] c = "f" -> "F" [] c = "g" -> "G"
      [] c = "l" -> "L" [] c = "o" -> "O" [] c = "r" -> "R" [] OTHER -> c

LowerStr(s) == IF s = <<>> THEN <<>> ELSE [i \in 1..Len(s) |-> Lower(s[i])]

UpperStr(s) == IF s = <<>> THEN <<>> ELSE [i \in 1..Len(s) |-> Upper(s[i])]

\* s.replace(c, r) for a single character c and a string r.
RECURSIVE Replace(_, _, _)
Replace(s, c, r) ==
    IF s = <<>> THEN <<>>
    ELSE (IF Head(s) = c THEN r ELSE <<Head(s)>>) \o Replace(Tail(s), c, r)

\* needle in hay
Contains(hay, needle) ==
    \E i \in 0..(Len(hay) - Len(needle)) :
        \A j \in 1..Len(needle) : hay[i + j] = needle[j]

\* s.endswith(suffix)
EndsWith(s, suffix) ==
    /\ Len(suffix) <= Len(s)
    /\ \A j \in 1..Len(suffix) : s[Len(s) - Len(suffix) + j] = suffix[j]

\* ------------------------------------------------------------ ResidueScanner
MaxIdLen == 3
IdChars == {"a", "B", "-", "_"}
FooBar == <<"f", "o", "o", "-", "b", "a", "r">>
\* The package identifiers a scan is asked about.
Identifiers ==
    UNION {[1..n -> IdChars] : n \in 1..MaxIdLen} \cup {FooBar}

\* ResidueScanner._generate_keywords: the list made from a set, so without
\* duplicates and in no particular order.
generate_keywords(name) ==
    LET display == Replace(Replace(name, "-", <<" ">>), "_", <<" ">>)
    IN  {name, Replace(name, "-", <<>>), Replace(name, "_", <<>>),
         LowerStr(name), UpperStr(name),
         display, LowerStr(display), UpperStr(display)}

\* No call of the kind is under way.
NoKw == [pc |-> "off"]

GenerateKeywords ==
    /\ kw.pc = "idle"
    /\ kw' = [kw EXCEPT !.pc = "done", !.keywords = generate_keywords(kw.name)]
    /\ UNCHANGED <<safe, cls, rscan, inv, call>>

\* ResidueType
ResidueTypes == {"CONFIG", "CACHE", "LOG", "DATA", "OTHER"}

\* Names of path components, as strings.
Str ==
    [etc           |-> <<"e", "t", "c">>,
     log           |-> <<"l", "o", "g">>,
     cache         |-> <<"c", "a", "c", "h", "e">>,
     dotconfig     |-> <<".", "c", "o", "n", "f", "i", "g">>,
     alog          |-> <<"a", ".", "l", "o", "g">>,
     ALOG          |-> <<"A", ".", "L", "O", "G">>,
     app           |-> <<"a", "p", "p">>,
     var           |-> <<"v", "a", "r">>,
     lib           |-> <<"l", "i", "b">>,
     opt           |-> <<"o", "p", "t">>,
     home          |-> <<"h", "o", "m", "e">>,
     u             |-> <<"u">>,
     dotcache      |-> <<".", "c", "a", "c", "h", "e">>,
     dotlocal      |-> <<".", "l", "o", "c", "a", "l">>,
     share         |-> <<"s", "h", "a", "r", "e">>,
     state         |-> <<"s", "t", "a", "t", "e">>,
     usr           |-> <<"u", "s", "r">>,
     local         |-> <<"l", "o", "c", "a", "l">>,
     AB            |-> <<"A", "B">>,
     ablog         |-> <<"a", "b", ".", "l", "o", "g">>,
     b             |-> <<"b">>,
     Ab            |-> <<"A", "b">>,
     A_B           |-> <<"A", " ", "B">>,
     ab            |-> <<"a", "b">>]

\* The category names of ResidueScanner.SCAN_PATHS, as strings.
Category ==
    [system_config |-> <<"s", "y", "s", "t", "e", "m", "_", "c", "o", "n", "f", "i", "g">>,
     system_log    |-> <<"s", "y", "s", "t", "e", "m", "_", "l", "o", "g">>,
     system_data   |-> <<"s", "y", "s", "t", "e", "m", "_", "d", "a", "t", "a">>,
     user_config   |-> <<"u", "s", "e", "r", "_", "c", "o", "n", "f", "i", "g">>,
     user_cache    |-> <<"u", "s", "e", "r", "_", "c", "a", "c", "h", "e">>,
     user_data     |-> <<"u", "s", "e", "r", "_", "d", "a", "t", "a">>,
     usr_local     |-> <<"u", "s", "r", "_", "l", "o", "c", "a", "l">>]

\* ResidueScanner.SCAN_PATHS: the categories and the roots of each, a root
\* being the sequence of its components ('~' expanded to /home/u).
SCAN_PATHS ==
    <<[category |-> Category.system_config, root |-> <<Str.etc>>],
      [category |-> Category.system_log, root |-> <<Str.var, Str.log>>],
      [category |-> Category.system_data, root |-> <<Str.var, Str.lib>>],
      [category |-> Category.system_data, root |-> <<Str.opt>>],
      [category |-> Category.user_config, root |-> <<Str.home, Str.u, Str.dotconfig>>],
      [category |-> Category.user_cache, root |-> <<Str.home, Str.u, Str.dotcache>>],
      [category |-> Category.user_data, root |-> <<Str.home, Str.u, Str.dotlocal, Str.share>>],
      [category |-> Category.user_data, root |-> <<Str.home, Str.u, Str.dotlocal, Str.state>>],
      [category |-> Category.usr_local, root |-> <<Str.usr, Str.local>>]>>

\* os.path.join of the components of an absolute path.
RECURSIVE JoinPath(_)
JoinPath(comps) ==
    IF comps = <<>> THEN <<>> ELSE <<"/">> \o Head(comps) \o JoinPath(Tail(comps))

\* ResidueScanner._get_residue_type without its '/log/' test.
get_residue_type_no_log_dir(category, path) ==
    IF \/ Contains(category, <<"c", "o", "n", "f", "i", "g">>)
       \/ Contains(path, <<"/", "e", "t", "c", "/">>)
       \/ Contains(path, Str.dotconfig)
    THEN "CONFIG"
    ELSE IF \/ Contains(category, Str.log)
            \/ EndsWith(LowerStr(path), <<".", "l", "o", "g">>)
    THEN "LOG"
    ELSE IF \/ Contains(category, Str.cache)
            \/ Contains(path, <<"/", "c", "a", "c", "h", "e", "/">>)
    THEN "CACHE"
    ELSE IF Contains(category, <<"d", "a", "t", "a">>)
    THEN "DATA"
    ELSE "OTHER"

\* ResidueScanner._get_residue_type
get_residue_type(category, path) ==
    IF \/ Contains(category, <<"c", "o", "n", "f", "i", "g">>)
       \/ Contains(path, <<"/", "e", "t", "c", "/">>)
       \/ Contains(path, Str.dotconfig)
    THEN "CONFIG"
    ELSE IF \/ Contains(category, Str.log)
            \/ Contains(path, <<"/", "l", "o", "g", "/">>)
            \/ EndsWith(LowerStr(path), <<".", "l", "o", "g">>)
    THEN "LOG"
    ELSE IF \/ Contains(category, Str.cache)
            \/ Contains(path, <<"/", "c", "a", "c", "h", "e", "/">>)
    THEN "CACHE"
    ELSE IF Contains(category, <<"d", "a", "t", "a">>)
    THEN "DATA"
    ELSE "OTHER"

\* The candidates handed to _get_residue_type: a scan root followed by up to
\* MaxDepth further components.
MaxDepth == 2
Vocab == {Str.etc, Str.log, Str.cache, Str.dotconfig, Str.alog, Str.ALOG, Str.app}
Below == UNION {[1..n -> Vocab] : n \in 1..MaxDepth}

NoCls == [pc |-> "off"]

Classify ==
    /\ cls.pc = "idle"
    /\ cls' = [cls EXCEPT !.pc = "done",
                          !.kind = get_residue_type(cls.category, JoinPath(cls.comps))]
    /\ UNCHANGED <<safe, kw, rscan, inv, call>>

\* ---- the tree a scan walks
\* The characters in use, in code point order; Python compares strings by
\* code point, so the position in this list decides every comparison.
CodePointOrder ==
    <<" ", "-", ".", "/", "A", "B", "F", "G", "L", "O", "R", "_",
      "a", "b", "c", "d", "e", "f", "g", "h", "i", "l", "m", "n", "o", "p",
      "r", "s", "t", "u", "v", "y">>

Ord(c) == CHOOSE i \in 1..Len(CodePointOrder) : CodePointOrder[i] = c

\* a < b for two str
RECURSIVE StrLess(_, _)
StrLess(a, b) ==
    IF b = <<>> THEN FALSE
    ELSE IF a = <<>> THEN TRUE
    ELSE IF Ord(Head(a)) < Ord(Head(b)) THEN TRUE
    ELSE IF Ord(Head(a)) > Ord(Head(b)) THEN FALSE
    ELSE StrLess(Tail(a), Tail(b))

\* The places of the tree: 1 and 4 lie directly in /var/lib, 2 lies in 1,
\* 3 lies in 2, and 5 lies directly in /opt.
Slots == 1..5
Parent(s) == CASE s = 2 -> 1 [] s = 3 -> 2 [] OTHER -> 0
\* Index in SCAN_PATHS of the scan root a place lies under.
RootOf(s) == IF s = 5 THEN 4 ELSE 3

\* What a place holds.  linkfile: symbolic link to a regular file; linkdir:
\* symbolic link to a directory (the places below it are the content of its
\* target); dangling: symbolic link to nothing.
NodeKinds == {"absent", "file", "linkfile", "dangling", "dir", "linkdir"}
IsDirEntry(k) == k \in {"dir", "linkdir"}
IsFileEntry(k) == k \in {"file", "linkfile", "dangling"}

\* The names a place may carry.
SlotNames(s) ==
    CASE s = 1 -> {Str.AB, Str.cache}
      [] s = 2 -> {Str.ablog, Str.b}
      [] s = 3 -> {Str.Ab, Str.b}
      [] s = 4 -> {Str.A_B, Str.b}
      [] OTHER -> {Str.ab, Str.b}
SlotKinds(s) ==
    CASE s = 1 -> {"absent", "file", "dir", "linkdir"}
      [] s = 2 -> NodeKinds
      [] s = 3 -> {"absent", "file", "linkfile"}
      [] s = 4 -> {"absent", "file", "dangling", "dir"}
      [] OTHER -> {"absent", "file", "dir"}

\* The size of the regular file at a place, and of the regular file a
\* symbolic link placed in the tree points to.
FileSize(s) == 2 ^ (s - 1)
TargetSize(s) == 2 ^ (s + 4)

SlotNodes(s) ==
    {n \in [kind : SlotKinds(s), name : SlotNames(s)] :
        n.kind = "absent" => n.name = Str.b}

\* The trees: a place below something that is no directory holds nothing.
Trees ==
    {t \in {<<n1, n2, n3, n4, n5>> : n1 \in SlotNodes(1), n2 \in SlotNodes(2),
               n3 \in SlotNodes(3), n4 \in SlotNodes(4), n5 \in SlotNodes(5)} :
        \A s \in Slots :
            (Parent(s) # 0 /\ ~IsDirEntry(t[Parent(s)].kind)) => t[s].kind = "absent"}

\* os.path.join(root, name) for the entry at a place, as components.
RECURSIVE SlotComps(_, _)
SlotComps(t, s) ==
    (IF Parent(s) = 0 THEN SCAN_PATHS[RootOf(s)].root ELSE SlotComps(t, Parent(s)))
        \o <<t[s].name>>

SlotPath(t, s) == JoinPath(SlotComps(t, s))

\* os.path.getsize(path): follows links, raises for a dangling one.
getsize(t, s) ==
    CASE t[s].kind = "file" -> FileSize(s)
      [] t[s].kind = "linkfile" -> TargetSize(s)
      [] OTHER -> 0

\* The entries of one directory as scandir hands them out: in one order or
\* in the opposite one.
RECURSIVE ScandirOrder(_, _)
ScandirOrder(S, rev) ==
    IF S = {} THEN <<>>
    ELSE LET s == IF rev THEN CHOOSE x \in S : \A y \in S : y <= x
                  ELSE CHOOSE x \in S : \A y \in S : x <= y
         IN  <<s>> \o ScandirOrder(S \ {s}, rev)

\* The places directly in directory d of scan root r (d = 0: the root itself).
ChildrenOf(t, r, d) ==
    {s \in Slots : RootOf(s) = r /\ Parent(s) = d /\ t[s].kind # "absent"}

\* ResidueScanner._get_dir_size: os.walk(dir_path) lists dir_path itself,
\* whether a directory or a link to one, and descends into real
\* sub-directories only; a file counts when isfile and not islink.
RECURSIVE get_dir_size(_, _, _)
get_dir_size(t, r, d) ==
    LET RECURSIVE Sum(_)
        Sum(S) ==
            IF S = {} THEN 0
            ELSE LET s == CHOOSE x \in S : TRUE
                 IN  (CASE t[s].kind = "file" -> FileSize(s)
                        [] t[s].kind = "dir" -> get_dir_size(t, r, s)
                        [] OTHER -> 0) + Sum(S \ {s})
    IN  Sum(ChildrenOf(t, r, d))

\* ResidueScanner._is_match with case kept.
is_match_case_sensitive(name, keywords) ==
    \E k \in keywords : Contains(name, k)

\* ResidueScanner._is_match
is_match(name, keywords) ==
    \E k \in keywords : Contains(LowerStr(name), LowerStr(k))

\* a.startswith(b)
StartsWith(a, b) ==
    /\ Len(b) <= Len(a)
    /\ \A j \in 1..Len(b) : a[j] = b[j]

\* ResidueScanner._is_safe_to_delete
is_safe_to_delete(category, path) ==
    ~ \E unsafe \in {<<"/", "e", "t", "c", "/", "s", "y", "s", "t", "e", "m", "d">>,
                     <<"/", "e", "t", "c", "/", "i", "n", "i", "t", ".", "d">>,
                     <<"/", "e", "t", "c", "/", "r", "c">>,
                     <<"/", "u", "s", "r", "/", "l", "o", "c", "a", "l", "/", "b", "i", "n">>} :
          StartsWith(path, unsafe)

\* The ResidueFile appended for the entry at place s (slot: which place it
\* was made for, kept for reference only).
Candidate(t, r, s) ==
    LET path == SlotPath(t, s)
        category == SCAN_PATHS[r].category
    IN  [path |-> path,
         size |-> IF IsDirEntry(t[s].kind) THEN get_dir_size(t, r, s) ELSE getsize(t, s),
         type |-> get_residue_type(category, path),
         is_selected |-> TRUE,
         is_safe_to_delete |-> is_safe_to_delete(category, path),
         slot |-> s]

\* The candidates among a list of places, in that order.
RECURSIVE Matching(_, _, _, _)
Matching(t, r, ss, keywords) ==
    IF ss = <<>> THEN <<>>
    ELSE (IF is_match(t[Head(ss)].name, keywords)
          THEN <<Candidate(t, r, Head(ss))>> ELSE <<>>)
         \o Matching(t, r, Tail(ss), keywords)

\* ResidueScanner._scan_path: os.walk(base_path, followlinks=False), top
\* down; in each directory the sub-directory names first, then the file
\* names; links to directories are listed but not entered.
RECURSIVE WalkDir(_, _, _, _, _)
WalkDir(t, r, d, rev, keywords) ==
    LET dirs == ScandirOrder({s \in ChildrenOf(t, r, d) : IsDirEntry(t[s].kind)}, rev)
        fls == ScandirOrder({s \in ChildrenOf(t, r, d) : IsFileEntry(t[s].kind)}, rev)
        RECURSIVE Descend(_)
        Descend(ss) ==
            IF ss = <<>> THEN <<>>
            ELSE (IF t[Head(ss)].kind = "dir"
                  THEN WalkDir(t, r, Head(ss), rev, keywords) ELSE <<>>)
                 \o Descend(Tail(ss))
    IN  Matching(t, r, dirs, keywords) \o Matching(t, r, fls, keywords) \o Descend(dirs)

\* os.path.exists(path) for a scan root: the two roots of the tree exist,
\* and so do /etc and /var/log, which hold nothing of interest.
RootExists(r) == r \in {1, 2, 3, 4}

scan_path(t, r, rev, keywords) == WalkDir(t, r, 0, rev, keywords)

\* ResidueType.value, as far as sorting goes: the labels differ in their
\* first character, whose code point decides.
ValueOrd(type) ==
    CASE type = "OTHER" -> 20854
      [] type = "DATA" -> 25968
      [] type = "LOG" -> 26085
      [] type = "CACHE" -> 32531
      [] OTHER -> 37197

\* (x.type.value, x.path) < (y.type.value, y.path)
KeyLess(x, y) ==
    \/ ValueOrd(x.type) < ValueOrd(y.type)
    \/ ValueOrd(x.type) = ValueOrd(y.type) /\ StrLess(x.path, y.path)

RECURSIVE InsertSorted(_, _)
InsertSorted(e, s) ==
    IF s = <<>> THEN <<e>>
    ELSE IF KeyLess(e, Head(s)) THEN <<e>> \o s
    ELSE <<Head(s)>> \o InsertSorted(e, Tail(s))

\* list.sort(key=...) left as it is.
RECURSIVE sort_unsorted(_, _)
sort_unsorted(s, acc) ==
    IF s = <<>> THEN acc ELSE sort_unsorted(Tail(s), acc \o <<Head(s)>>)

\* list.sort(key=lambda x: (x.type.value, x.path)): stable.
RECURSIVE sort(_, _)
sort(s, acc) ==
    IF s = <<>> THEN acc ELSE sort(Tail(s), InsertSorted(Head(s), acc))

NoRscan == [pc |-> "off"]

\* scan, up to the loop over SCAN_PATHS
RScanBegin ==
    /\ rscan.pc = "idle"
    /\ rscan' = [rscan EXCEPT !.pc = "paths", !.residue_files = <<>>, !.ri = 1,
                              !.keywords = generate_keywords(rscan.name)]
    /\ UNCHANGED <<safe, kw, cls, inv, call>>

\* one round of the loop over SCAN_PATHS
RScanPath ==
    /\ rscan.pc = "paths"
    /\ rscan.ri <= Len(SCAN_PATHS)
    /\ rscan' = [rscan EXCEPT
           !.ri = @ + 1,
           !.residue_files =
               IF RootExists(rscan.ri)
               THEN @ \o scan_path(rscan.tree, rscan.ri, rscan.rev, rscan.keywords)
               ELSE @]
    /\ UNCHANGED <<safe, kw, cls, inv, call>>

\* the sort and the return
RScanReturn ==
    /\ rscan.pc = "paths"
    /\ rscan.ri > Len(SCAN_PATHS)
    /\ rscan' = [rscan EXCEPT !.pc = "done",
                              !.residue_files = sort(rscan.residue_files, <<>>),
                              !.ret = sort(rscan.residue_files, <<>>)]
    /\ UNCHANGED <<safe, kw, cls, inv, call>>

\* The identifiers scanned for.
ScanIds == {<<"a", "-", "b">>, Str.ab}

\* ------------------------------------------------------------ PackageScanner
\* PackageScanner.SYSTEM_PACKAGES
SYSTEM_PACKAGES ==
    {"apt", "dpkg", "systemd", "udev", "dbus", "polkit", "login", "passwd",
     "adduser", "base-files", "base-passwd", "xorg", "xserver", "wayland",
     "mesa", "libgl", "networkd", "networkmanager", "wpa-supplicant", "gdm",
     "gdm3", "lightdm", "sddm", "gnome-core", "gnome-shell",
     "kde-plasma-desktop", "python3", "python3-minimal", "libpython3", "bash",
     "coreutils", "findutils", "grep", "gzip", "sed", "tar", "util-linux",
     "lsb", "linux-firmware", "amd64-microcode", "intel-microcode", "grub",
     "shim", "libc6", "libstdc++", "libgcc", "openssl", "ca-certificates"}

\* The order in which scan_all visits the sources.
SourceOrder == <<"APT", "Snap", "Flatpak", "AppImage">>

\* What the backends print.  A dpkg-query line is its ${Package} and whether
\* its ${Status} holds 'install ok installed'; a snap or flatpak line is
\* the name in its first column (for snap: the lines after the title line).
\* files: how many *.appimage files the searched directories hold.
MaxLines == 2
BackendNames == {"base-files", "vlc"}
AptLines == {[name |-> n, installed |-> b] : n \in BackendNames, b \in BOOLEAN}
AptOutputs == UNION {[1..n -> AptLines] : n \in 0..MaxLines}
NameOutputs == UNION {[1..n -> BackendNames] : n \in 0..MaxLines}
Hosts ==
    {h \in [apt : AptOutputs, snap_rc : {0, 1}, snap : NameOutputs,
             flatpak_rc : {0, 1}, flatpak : {<<>>, <<"vlc">>}, appimages : {0, 1}] :
        /\ h.snap_rc # 0 => h.snap = <<>>
        /\ h.flatpak_rc # 0 => h.flatpak = <<>>}

\* Package, as far as identity goes.
Pkg(n, s) == [name |-> n, source |-> s]

\* PackageScanner._scan_apt
RECURSIVE scan_apt(_, _)
scan_apt(lines, skip) ==
    IF lines = <<>> THEN <<>>
    ELSE (IF /\ Head(lines).installed
             /\ ~(skip /\ Head(lines).name \in SYSTEM_PACKAGES)
          THEN <<Pkg(Head(lines).name, "APT")>> ELSE <<>>)
         \o scan_apt(Tail(lines), skip)

\* PackageScanner._scan_snap / _scan_flatpak: nothing when `which` fails,
\* otherwise one package per line.
scan_named(rc, lines, source) ==
    IF rc # 0 \/ lines = <<>> THEN <<>>
    ELSE [i \in 1..Len(lines) |-> Pkg(lines[i], source)]

\* The fields of the Package dataclass, and the keyword arguments
\* _scan_appimage calls Package with.
PackageFields ==
    {"name", "display_name", "version", "size", "source", "install_date",
     "description", "is_selected"}
AppImageKwargs ==
    {"name", "display_name", "app_name", "version", "size", "source",
     "install_date", "description"}

\* PackageScanner._scan_appimage with n *.appimage files in a searched
\* directory: Package(...) raises TypeError for a keyword that is no field,
\* which the except clause around the listing of the directory swallows, so
\* nothing is appended for that directory.
scan_appimage(n) ==
    IF n = 0 \/ ~(AppImageKwargs \subseteq PackageFields) THEN <<>>
    ELSE <<Pkg("app.AppImage", "AppImage")>>

ScanOf(host, skip, source) ==
    CASE source = "APT" -> scan_apt(host.apt, skip)
      [] source = "Snap" -> scan_named(host.snap_rc, host.snap, "Snap")
      [] source = "Flatpak" -> scan_named(host.flatpak_rc, host.flatpak, "Flatpak")
      [] OTHER -> scan_appimage(host.appimages)

\* The percents scan_all reports before and after each source.
StartPercent(source) ==
    CASE source = "APT" -> 0 [] source = "Snap" -> 25
      [] source = "Flatpak" -> 50 [] OTHER -> 75
FinishPercent(source) ==
    CASE source = "APT" -> 25 [] source = "Snap" -> 50
      [] source = "Flatpak" -> 75 [] OTHER -> 95

Report(phase, source, count, percent) ==
    [phase |-> phase, source |-> source, count |-> count, percent |-> percent]

NoInv == [pc |-> "off"]
NoCall == [pc |-> "off"]

\* scan_all, up to the first source
InvBegin ==
    /\ inv.pc = "idle"
    /\ inv' = [inv EXCEPT !.pc = "sources", !.si = 1, !.packages = <<>>,
                          !.total_sources = Cardinality(inv.sources), !.completed = 0]
    /\ UNCHANGED <<safe, kw, cls, rscan, call>>

\* scan_all: the block of one source, skipped when it was not requested
InvSource ==
    /\ inv.pc = "sources"
    /\ inv.si <= Len(SourceOrder)
    /\ LET s == SourceOrder[inv.si]
           found == ScanOf(inv.host, inv.skip, s)
       IN  IF s \in inv.sources
           THEN inv' = [inv EXCEPT
                    !.si = @ + 1,
                    !.packages = @ \o found,
                    !.completed = @ + 1,
                    !.progress = @ \o <<Report("start", s, 0, StartPercent(s)),
                                        Report("finish", s, Len(found), FinishPercent(s))>>]
           ELSE inv' = [inv EXCEPT !.si = @ + 1]
    /\ UNCHANGED <<safe, kw, cls, rscan, call>>

\* scan_all: the last report and the return
InvReturn ==
    /\ inv.pc = "sources"
    /\ inv.si > Len(SourceOrder)
    /\ inv' = [inv EXCEPT !.pc = "done", !.ret = inv.packages,
                          !.progress = @ \o <<Report("final", "", Len(inv.packages), 100)>>]
    /\ UNCHANGED <<safe, kw, cls, rscan, call>>

\* ------------------------------------------------------------ AptBackend
\* The largest number of installed reverse-dependents a package has.
MaxDeps == 51

\* The static list of is_system_package.
system_packages ==
    {"ubuntu-desktop", "ubuntu-minimal", "ubuntu-standard",
     "ubuntu-desktop-minimal", "ubuntu-desktop-recommended",
     "base-files", "base-passwd", "bash", "coreutils",
     "dpkg", "apt", "libc6", "libstdc++6",
     "systemd", "dbus", "login", "passwd",
     "python3", "python3-minimal"}

\* What `apt-cache rdepends --installed name` prints for a package with n
\* installed reverse-dependents, split at the newlines: the package's name,
\* the heading, one indented line per dependent, and the empty piece after
\* the last newline.
RdependsStdout(name, n) ==
    <<name, "Reverse Depends:">> \o [i \in 1..n |-> "  dep"] \o <<"">>

\* l.strip() is empty.
IsBlankLine(l) == l \in {"", " ", "  "}

\* The outcomes of the reverse-dependency query: exit status 0 with the
\* listing, a non-zero exit status, an exception (the timeout included).
RdependsOutcomes == {"rc0", "rc1", "raise"}

\* is_system_package(name) where the query ends as out and the package has n
\* installed reverse-dependents.
is_system_package(name, out, n) ==
    IF name \in system_packages THEN TRUE
    ELSE IF out = "rc0"
         THEN LET dependents == SelectSeq(Tail(RdependsStdout(name, n)),
                                          LAMBDA l : ~IsBlankLine(l))
              IN  Len(dependents) > 50
         ELSE FALSE

\* One call of is_system_package.
IsSystemPackage ==
    /\ call.pc = "idle"
    /\ call.fn = "is_system_package"
    /\ call' = [call EXCEPT !.pc = "done",
                            !.ret = is_system_package(call.name, call.out, call.deps)]
    /\ UNCHANGED <<safe, kw, cls, rscan, inv>>

\* ------------------------------------------------------------ AppNameResolver
MaxNameLen == 4
MaxCache == 2

\* The launcher files of the host, as _build_desktop_cache keeps them: the
\* key is the file name without ".desktop" in lower case (the separators
\* stay), name is the Name entry (never empty), name_zh the localized Name
\* entry or the empty string.
DesktopFiles ==
    <<[key |-> <<"a", "b">>, name |-> <<"A", "b">>, name_zh |-> <<>>],
      [key |-> <<"a", "-", "b">>, name |-> <<"A", "1">>, name_zh |-> <<"Z", "1">>],
      [key |-> <<"a", "_", "b", "b">>, name |-> <<"A", "2">>, name_zh |-> <<>>],
      [key |-> <<"b">>, name |-> <<"B", "3">>, name_zh |-> <<"Z", "3">>],
      [key |-> <<"a", "b", "b", "a">>, name |-> <<"A", "4">>, name_zh |-> <<>>],
      [key |-> <<"a", "-", "b", "b", "a">>, name |-> <<"A", "5">>, name_zh |-> <<>>]>>

\* desktop_cache: the parsed files in the order the dictionary iterates
\* them, which is the order of their first insertion.
DesktopCaches ==
    {<<>>}
      \cup UNION {{[i \in 1..n |-> DesktopFiles[f[i]]] :
                      f \in {g \in [1..n -> DOMAIN DesktopFiles] :
                                \A i, j \in 1..n : i # j => g[i] # g[j]}} :
                  n \in 1..MaxCache}

\* The package names asked about.
PackageNames ==
    {s \in UNION {[1..n -> {"a", "b", "-"}] : n \in 2..MaxNameLen} : s[1] # "-"}
        \cup {<<"A", "_", "b">>, <<"a", "_", "b", "b">>}

\* s.replace('-', '').replace('_', '')
StripSeparators(s) == Replace(Replace(s, "-", <<>>), "_", <<>>)

\* info['name_zh'] or info['name']
AppName(info) == IF info.name_zh # <<>> THEN info.name_zh ELSE info.name

RECURSIVE TitleFrom(_, _)
\* str.title(): a cased character is put in upper case after an uncased
\* one (or at the start) and in lower case after a cased one.
TitleFrom(s, inWord) ==
    IF s = <<>> THEN <<>>
    ELSE LET c == Head(s)
             cased == Lower(c) # Upper(c)
         IN  <<IF ~cased THEN c ELSE IF inWord THEN Lower(c) ELSE Upper(c)>>
                 \o TitleFrom(Tail(s), cased)

Title(s) == TitleFrom(s, FALSE)

\* The first of the cache positions in S in iteration order; 0 when S is
\* empty.
FirstEntry(S) ==
    IF S = {} THEN 0 ELSE CHOOSE i \in S : \A j \in S : i <= j

\* AppNameResolver.get_app_name(package_name) with an empty name_cache, the
\* desktop cache given, and dpkg -L listing the launcher file number dpkg
\* (0: the command fails, raises, or lists no launcher file that parses).
get_app_name(package_name, cache, dpkg) ==
    LET pkg_name_lower == StripSeparators(LowerStr(package_name))
        exact == FirstEntry({i \in DOMAIN cache : cache[i].key = pkg_name_lower})
        equal == FirstEntry({i \in DOMAIN cache :
                                pkg_name_lower = StripSeparators(cache[i].key)})
        fuzzy == FirstEntry({i \in DOMAIN cache :
                                \/ Contains(StripSeparators(cache[i].key), pkg_name_lower)
                                \/ Contains(pkg_name_lower, StripSeparators(cache[i].key))})
        display_name == Title(Replace(Replace(package_name, "-", <<" ">>), "_", <<" ">>))
        named == FirstEntry({i \in DOMAIN cache :
                                Replace(LowerStr(display_name), " ", <<>>)
                                  = Replace(Replace(LowerStr(cache[i].name), "-", <<" ">>),
                                            "_", <<>>)})
    IN  IF exact # 0 THEN AppName(cache[exact])
        ELSE IF dpkg # 0 THEN AppName(DesktopFiles[dpkg])
        ELSE IF Len(pkg_name_lower) >= 4 /\ equal # 0 THEN AppName(cache[equal])
        ELSE IF Len(pkg_name_lower) >= 3 /\ fuzzy # 0 THEN AppName(cache[fuzzy])
        ELSE IF named # 0 THEN AppName(cache[named])
        ELSE display_name

\* One call of get_app_name.
GetAppName ==
    /\ call.pc = "idle"
    /\ call.fn = "get_app_name"
    /\ call' = [call EXCEPT !.pc = "done",
                            !.ret = get_app_name(call.name, call.cache, call.dpkg)]
    /\ UNCHANGED <<safe, kw, cls, rscan, inv>>

LibIdle ==
    /\ safe = [p \in Paths |-> TRUE]
    /\ kw = NoKw
    /\ cls = NoCls
    /\ rscan = NoRscan
    /\ inv = NoInv
    /\ call = NoCall

vars == <<cleanVars, uninstVars, uiVars, libVars>>

\* ------------------------------------------------------------ specifications
InitClean ==
    /\ fs \in [Paths -> FsRec]
    /\ files \in FileLists
    /\ cpc = "idle"
    /\ run = 0
    /\ selected_files = <<>>
    /\ ci = 0
    /\ deleted_files = 0
    /\ deleted_size = 0
    /\ events = <<>>
    /\ results = <<>>
    /\ cret = <<>>
    /\ gone = {}
    /\ single = NoSingle
    /\ UninstIdle
    /\ UiIdle
    /\ LibIdle

NextClean ==
    \/ CleanStart /\ UNCHANGED <<uninstVars, uiVars, libVars>>
    \/ CleanStep /\ UNCHANGED <<uninstVars, uiVars, libVars>>
    \/ CleanFinish /\ UNCHANGED <<uninstVars, uiVars, libVars>>
    \/ CleanSingle /\ UNCHANGED <<uninstVars, uiVars, libVars>>

\* The cleaner driven through its interface: clean (twice) and clean_single.
SpecClean == InitClean /\ [][NextClean]_vars

InitUninst ==
    /\ upkg \in {[source |-> s, appfile |-> a] : s \in Sources, a \in AppFiles}
    /\ upkg.source # "AppImage" => upkg.appfile = "absent"
    /\ listed \in UNION {[1..n -> ListedKinds] : n \in 0..MaxListed}
    /\ ucall = "none"
    /\ ucmds = <<>>
    /\ uret = NoRet
    /\ udeleted = 0
    /\ CleanIdle
    /\ UiIdle
    /\ LibIdle

NextUninst ==
    \/ Uninstall /\ UNCHANGED <<uiVars, libVars>>
    \/ ForceRemove /\ UNCHANGED <<uiVars, libVars>>

\* The uninstaller driven through its interface.
SpecUninst == InitUninst /\ [][NextUninst]_vars

\* Every residue path of the host is a writable file; the direct removal
\* of the even ones fails with an OSError other than PermissionError.
InitUI ==
    /\ fs = [p \in Paths |-> [kind |-> "file", w |-> TRUE,
                               d |-> IF p % 2 = 1 THEN "ok" ELSE "oserr"]]
    /\ files = <<>>
    /\ cpc = "idle"
    /\ run = 0
    /\ selected_files = <<>>
    /\ ci = 0
    /\ deleted_files = 0
    /\ deleted_size = 0
    /\ events = <<>>
    /\ results = <<>>
    /\ cret = <<>>
    /\ gone = {}
    /\ single = NoSingle
    /\ UninstIdle
    /\ UiIdle
    /\ LibIdle

NextScan ==
    \/ StartScan /\ UNCHANGED <<cleanVars, uninstVars, libVars>>
    \/ \E t \in 1..MaxScans :
          \/ ScanBegin(t) /\ UNCHANGED <<cleanVars, uninstVars, libVars>>
          \/ ScanSource(t) /\ UNCHANGED <<cleanVars, uninstVars, libVars>>
          \/ ScanReturn(t) /\ UNCHANGED <<cleanVars, uninstVars, libVars>>
          \/ OnScanComplete(t) /\ UNCHANGED <<cleanVars, uninstVars, libVars>>
    \/ \E o \in {PkgObj(n, t) : n \in PkgNames, t \in 1..MaxScans} :
          Toggle(o) /\ UNCHANGED <<cleanVars, uninstVars, libVars>>
    \/ \E how \in {"all", "none", "invert"} :
          MenuSelect(how) /\ UNCHANGED <<cleanVars, uninstVars, libVars>>

\* The inventory: refreshes, the scan threads, the table.
SpecScan == InitUI /\ [][NextScan]_vars

NextUI ==
    \/ StartScan /\ UNCHANGED <<cleanVars, uninstVars, libVars>>
    \/ \E t \in 1..MaxScans :
          \/ ScanRun(t) /\ UNCHANGED <<cleanVars, uninstVars, libVars>>
          \/ OnScanComplete(t) /\ UNCHANGED <<cleanVars, uninstVars, libVars>>
    \/ \E o \in {PkgObj(n, t) : n \in PkgNames, t \in 1..MaxScans} :
          Toggle(o) /\ UNCHANGED <<cleanVars, uninstVars, libVars>>
    \/ \E how \in {"all", "none", "invert"} :
          MenuSelect(how) /\ UNCHANGED <<cleanVars, uninstVars, libVars>>
    \/ \E forced \in BOOLEAN : UninstallSelected(forced) /\ UNCHANGED <<cleanVars, uninstVars, libVars>>
    \/ TaskStep /\ UNCHANGED <<cleanVars, uninstVars, libVars>>
    \/ OnTaskComplete /\ UNCHANGED <<cleanVars, uninstVars, libVars>>
    \/ CloseUninstallProgress /\ UNCHANGED <<cleanVars, uninstVars, libVars>>
    \/ CloseCleanProgress /\ UNCHANGED <<uninstVars, libVars>>
    \/ ScanResidueSelected /\ UNCHANGED <<cleanVars, uninstVars, libVars>>
    \/ ResidueScanComplete /\ UNCHANGED <<cleanVars, uninstVars, libVars>>
    \/ \E i \in 1..MaxFiles : DialogToggle(i) /\ UNCHANGED <<cleanVars, uninstVars, libVars>>
    \/ DialogToggleAll /\ UNCHANGED <<cleanVars, uninstVars, libVars>>
    \/ ResidueCancel /\ UNCHANGED <<cleanVars, uninstVars, libVars>>
    \/ \E reply \in {"yes", "no"} : OnClean(reply) /\ UNCHANGED <<uninstVars, libVars>>
    \/ BatchClean /\ UNCHANGED <<cleanVars, uninstVars, libVars>>
    \/ \E reply \in {"yes", "no"} : BatchClose(reply) /\ UNCHANGED <<cleanVars, uninstVars, libVars>>
    \/ WorkerCleanStart /\ UNCHANGED <<uninstVars, libVars>>
    \/ (alive /\ CleanStep) /\ UNCHANGED <<uninstVars, uiVars, libVars>>
    \/ (alive /\ CleanFinish) /\ UNCHANGED <<uninstVars, uiVars, libVars>>

\* The application: inventory, removal, residue dialog, cleanup.
SpecUI == InitUI /\ [][NextUI]_vars

InitKeywords ==
    /\ kw \in {[pc |-> "idle", name |-> n, keywords |-> {}] : n \in Identifiers}
    /\ safe = [p \in Paths |-> TRUE]
    /\ cls = NoCls
    /\ rscan = NoRscan
    /\ inv = NoInv
    /\ call = NoCall
    /\ CleanIdle
    /\ UninstIdle
    /\ UiIdle

NextKeywords ==
    GenerateKeywords /\ UNCHANGED <<cleanVars, uninstVars, uiVars>>

\* _generate_keywords applied to an identifier.
SpecKeywords == InitKeywords /\ [][NextKeywords]_vars

InitClassify ==
    /\ cls \in {[pc |-> "idle", category |-> SCAN_PATHS[r].category,
                 comps |-> SCAN_PATHS[r].root \o b, kind |-> "OTHER"] :
                    r \in DOMAIN SCAN_PATHS, b \in Below}
    /\ safe = [p \in Paths |-> TRUE]
    /\ kw = NoKw
    /\ rscan = NoRscan
    /\ inv = NoInv
    /\ call = NoCall
    /\ CleanIdle
    /\ UninstIdle
    /\ UiIdle

NextClassify ==
    Classify /\ UNCHANGED <<cleanVars, uninstVars, uiVars>>

\* _get_residue_type applied to a candidate of a scan root.
SpecClassify == InitClassify /\ [][NextClassify]_vars

InitResidue ==
    /\ rscan \in {[pc |-> "idle", name |-> n, tree |-> t, rev |-> r, keywords |-> {},
                   ri |-> 0, residue_files |-> <<>>, ret |-> <<>>] :
                      n \in ScanIds, t \in Trees, r \in BOOLEAN}
    /\ safe = [p \in Paths |-> TRUE]
    /\ kw = NoKw
    /\ cls = NoCls
    /\ inv = NoInv
    /\ call = NoCall
    /\ CleanIdle
    /\ UninstIdle
    /\ UiIdle

NextResidue ==
    \/ RScanBegin /\ UNCHANGED <<cleanVars, uninstVars, uiVars>>
    \/ RScanPath /\ UNCHANGED <<cleanVars, uninstVars, uiVars>>
    \/ RScanReturn /\ UNCHANGED <<cleanVars, uninstVars, uiVars>>

\* ResidueScanner.scan applied to a tree.
SpecResidue == InitResidue /\ [][NextResidue]_vars

InitInventory ==
    /\ inv \in {[pc |-> "idle", skip |-> k, sources |-> ss, host |-> h, si |-> 0,
                 total_sources |-> 0, completed |-> 0, packages |-> <<>>,
                 progress |-> <<>>, ret |-> <<>>] :
                   k \in BOOLEAN, ss \in SUBSET Sources, h \in Hosts}
    /\ safe = [p \in Paths |-> TRUE]
    /\ kw = NoKw
    /\ cls = NoCls
    /\ rscan = NoRscan
    /\ call = NoCall
    /\ CleanIdle
    /\ UninstIdle
    /\ UiIdle

NextInventory ==
    \/ InvBegin /\ UNCHANGED <<cleanVars, uninstVars, uiVars>>
    \/ InvSource /\ UNCHANGED <<cleanVars, uninstVars, uiVars>>
    \/ InvReturn /\ UNCHANGED <<cleanVars, uninstVars, uiVars>>

\* PackageScanner.scan_all applied to a host.
SpecInventory == InitInventory /\ [][NextInventory]_vars

\* What the paths are in the runs that vary the safety flags: a file the
\* user can delete, a file the user lacks the permission for, nothing.
AdvisoryFs ==
    {[kind |-> "file", w |-> TRUE, d |-> "ok"],
     [kind |-> "file", w |-> FALSE, d |-> "perm"],
     Missing}

InitAdvisory ==
    /\ fs \in [Paths -> AdvisoryFs]
    /\ files \in FileLists
    /\ safe \in [Paths -> BOOLEAN]
    /\ cpc = "idle"
    /\ run = 0
    /\ selected_files = <<>>
    /\ ci = 0
    /\ deleted_files = 0
    /\ deleted_size = 0
    /\ events = <<>>
    /\ results = <<>>
    /\ cret = <<>>
    /\ gone = {}
    /\ single = NoSingle
    /\ kw = NoKw
    /\ cls = NoCls
    /\ rscan = NoRscan
    /\ inv = NoInv
    /\ call = NoCall
    /\ UninstIdle
    /\ UiIdle

NextAdvisory ==
    \/ CleanStart /\ UNCHANGED <<uninstVars, uiVars, libVars>>
    \/ CleanStep /\ UNCHANGED <<uninstVars, uiVars, libVars>>
    \/ CleanFinish /\ UNCHANGED <<uninstVars, uiVars, libVars>>

\* clean applied to lists whose entries carry any safety flags.
SpecAdvisory == InitAdvisory /\ [][NextAdvisory]_vars

InitCritical ==
    /\ call \in {[pc |-> "idle", fn |-> "is_system_package", name |-> n, out |-> o,
                  deps |-> d, ret |-> FALSE] :
                    n \in {"bash", "vlc"}, o \in RdependsOutcomes, d \in 0..MaxDeps}
    /\ safe = [p \in Paths |-> TRUE]
    /\ kw = NoKw
    /\ cls = NoCls
    /\ rscan = NoRscan
    /\ inv = NoInv
    /\ CleanIdle
    /\ UninstIdle
    /\ UiIdle

NextCritical ==
    IsSystemPackage /\ UNCHANGED <<cleanVars, uninstVars, uiVars>>

\* AptBackend.is_system_package applied to a package.
SpecCritical == InitCritical /\ [][NextCritical]_vars

InitResolve ==
    /\ call \in {[pc |-> "idle", fn |-> "get_app_name", name |-> n, cache |-> c,
                  dpkg |-> d, ret |-> <<>>] :
                    n \in PackageNames, c \in DesktopCaches,
                    d \in {0} \cup DOMAIN DesktopFiles}
    /\ safe = [p \in Paths |-> TRUE]
    /\ kw = NoKw
    /\ cls = NoCls
    /\ rscan = NoRscan
    /\ inv = NoInv
    /\ CleanIdle
    /\ UninstIdle
    /\ UiIdle

NextResolve ==
    GetAppName /\ UNCHANGED <<cleanVars, uninstVars, uiVars>>

\* AppNameResolver.get_app_name applied to a package name and a cache.
SpecResolve == InitResolve /\ [][NextResolve]_vars

\* ================================================================ claims
\* ---------------------------------------------------------------- helpers
RECURSIVE Bytes(_)
\* The sum of the recorded sizes of the paths in S.
Bytes(S) == IF S = {} THEN 0
            ELSE LET p == CHOOSE x \in S : TRUE IN SizeOf(p) + Bytes(S \ {p})

SelectedPaths == {files[i].path : i \in {k \in DOMAIN files : files[k].is_selected}}
IsOp(e) == e.t \in {"direct", "priv"}
IsError(e) == e.t \in {"error", "error_exc"}
ErrorsFor(p) == Cardinality({e \in DOMAIN events : IsError(events[e]) /\ events[e].path = p})
Succeeded == {i \in DOMAIN results : results[i].res = "True"}
\* The entries clean announced ("正在删除：path"), in order.
Announced == SelectSeq(events, LAMBDA e : e.t = "progress" /\ e.path # 0)
PrivOps(c) == SelectSeq(c.ops, LAMBDA e : e.t = "priv")
DirectOps(c) == SelectSeq(c.ops, LAMBDA e : e.t = "direct")
\* Every _delete_path call on record: those of the current clean call and
\* the clean_single call.
Calls == {results[i] : i \in DOMAIN results} \cup (IF single.res = "none" THEN {} ELSE {single})
\* The current user lacks the permission to delete the existing file or
\* directory the call is made on.
LacksPermission(c) == c.before.kind \in {"file", "dir"} /\ c.before.d = "perm"

\* C1: clean attempts a deletion, direct or privileged, only for entries
\* whose selection flag is set, and what it counts as deleted (number and
\* bytes) is a set of selected entries.
C1_OnlySelectedDeleted ==
    /\ \A e \in DOMAIN events : IsOp(events[e]) => events[e].path \in SelectedPaths
    /\ \A i \in DOMAIN results : results[i].path \in SelectedPaths
    /\ \E S \in SUBSET SelectedPaths :
          deleted_files = Cardinality(S) /\ deleted_size = Bytes(S)
    /\ cpc = "done" => cret = <<TRUE, deleted_files, deleted_size>>

\* A finished clean that deleted a selected entry and left alone an
\* unselected entry whose file the user could have deleted.
C1_Witness ==
    /\ cpc = "done"
    /\ cret[2] >= 1
    /\ \E i \in DOMAIN files : /\ ~files[i].is_selected
                               /\ fs[files[i].path] = [kind |-> "file", w |-> TRUE, d |-> "ok"]

\* C3: a deletion of an existing path the user has no permission
\* to delete is exactly one failing direct attempt followed by exactly one
\* privileged attempt, and it does not succeed if the privileged attempt fails.
C3_DirectThenPrivileged ==
    \A c \in Calls : LacksPermission(c) =>
        /\ Len(c.ops) = 2
        /\ c.ops[1].t = "direct"
        /\ c.ops[2].t = "priv"
        /\ c.ops[2].out # "rc0" => c.res # "True"

\* C4: a finished clean has called _delete_path once for every selected
\* entry, in list order, whatever the outcomes; it reported exactly one
\* error for each entry whose deletion did not succeed and none for the
\* others; deletedCount is the number of entries whose deletion succeeded
\* and deletedBytes the sum of their recorded sizes.
C4_BatchRunsToTheEnd ==
    cpc = "done" =>
        LET chosen == Selected(files)
        IN  /\ Len(results) = Len(chosen)
            /\ Len(Announced) = Len(chosen)
            /\ \A i \in DOMAIN chosen : /\ results[i].path = chosen[i].path
                                     /\ Announced[i].path = chosen[i].path
                                     /\ ErrorsFor(chosen[i].path)
                                          = (IF results[i].res = "True" THEN 0 ELSE 1)
            /\ cret = <<TRUE, Cardinality(Succeeded),
                        Bytes({results[i].path : i \in Succeeded})>>

\* A finished clean whose first deletion raised and whose second succeeded.
C4_Witness ==
    /\ cpc = "done"
    /\ Len(results) = 2
    /\ results[1].res = "Raise"
    /\ results[2].res = "True"

\* C5: clean of a list with no selected entry returns (true, 0, 0), having
\* attempted no deletion and reported neither progress nor error.
C5_EmptySelection ==
    (cpc = "done" /\ SelectedPaths = {}) =>
        /\ cret = <<TRUE, 0, 0>>
        /\ events = <<>>
        /\ results = <<>>

\* A finished clean of a non-empty list of unselected, deletable entries.
C5_Witness ==
    /\ cpc = "done"
    /\ SelectedPaths = {}
    /\ Len(files) >= 1
    /\ fs[1] = [kind |-> "file", w |-> TRUE, d |-> "ok"]

\* C6: _delete_path on a path where nothing exists returns True without
\* any removal command; in clean that reports no error; and the second
\* clean of the same list makes no removal attempt and reports no error
\* for a path the first one removed.
C6_MissingPathSucceeds ==
    /\ \A c \in Calls : c.before.kind = "missing" => c.res = "True" /\ c.ops = <<>>
    /\ \A i \in DOMAIN results :
          results[i].before.kind = "missing" => ErrorsFor(results[i].path) = 0
    /\ \A e \in DOMAIN events : events[e].path \in gone => events[e].t = "progress"

\* The second clean has gone over a path the first one removed.
C6_Witness ==
    /\ run = 2
    /\ cpc = "done"
    /\ \E i \in DOMAIN results : results[i].path \in gone /\ results[i].res = "True"

\* C2: whenever a cleanup task exists, the question "确认清理" was answered
\* Yes for it and every entry handed to clean was checked in the dialog at
\* that moment; and a clean is in progress, or has deleted anything, only
\* as such a task: nothing else (the end of a removal, the delivery of a
\* residue scan, the closing of a dialog) starts one.
C2_CleanOnlyAfterConfirmation ==
    /\ task.kind = "clean" =>
          /\ task.reply = "yes"
          /\ \A i \in DOMAIN files : files[i].is_selected /\ files[i].path \in task.paths
          /\ \A i \in DOMAIN results : results[i].path \in task.paths
    /\ (cpc # "idle" \/ results # <<>> \/ files # <<>>) => task.kind = "clean"

\* A confirmed cleanup of a part of what the dialog listed has finished and
\* deleted the one entry left checked.
C2_Witness ==
    /\ task.kind = "clean"
    /\ cpc = "done"
    /\ task.paths = {1}
    /\ deleted_files = 1
    /\ fs[1].kind = "missing"
    /\ \E p \in Paths : p # 1 /\ PkgOfPath(p) = PkgOfPath(1) /\ fs[p].kind = "file"

\* C7: the list a scan thread hands to the coordinator holds exactly the
\* packages its own backend listings produced, in order and once each,
\* also when another scan runs at the same time.
C7_ScanHandsOverItsOwnListings ==
    \A t \in 1..MaxScans :
        scans[t].pc = "queued" => lists[scans[t].result] = scans[t].own

\* C8: an APT uninstall first tries to stop the service, then, whatever
\* that attempt did, runs the removal, and after the removal runs the
\* autoremove whether the removal exited 0, exited non-zero or timed out.
C8_StopRemoveAutoremove ==
    (ucall = "uninstall" /\ upkg.source = "APT") =>
        /\ Len(ucmds) >= 2
        /\ ucmds[1].cmd = "systemctl_stop"
        /\ ucmds[2].cmd \in {"apt_remove", "apt_purge"}
        /\ ucmds[2].out \in {"rc0", "rc1", "timeout"} =>
              /\ Len(ucmds) = 3
              /\ ucmds[3].cmd = "apt_autoremove"

\* C9: uninstall and force_remove_package end by returning a pair, and a
\* clean_single that ran an external command ends by returning a boolean,
\* whatever the outcomes of the commands.
C9_DefiniteResults ==
    /\ uret.what \in {"none", "pair"}
    /\ (single.res # "none" /\ PrivOps(single) # <<>>) => single.res \in {"True", "False"}

\* The uninstaller's part of C9 on its own: both entry points return a pair.
UninstallerReturnsPair == ucall # "none" => uret.what = "pair"

\* A residue scan of package n can still be started, now or later: the
\* package is installed (an inventory scan lists it) or some list a
\* reference still reaches holds a row for it.
ResidueScanReachable(n) ==
    \/ n \in installed
    \/ \E l \in DOMAIN lists : \E i \in DOMAIN lists[l] : lists[l][i].name = n
    \/ modal = "residue" /\ dlg.pkg = n

\* C10: after the removal of a package was attempted, with either outcome,
\* a residue scan of that package stays reachable.
C10_ResidueScanStaysReachable ==
    \A n \in PkgNames : outcome[n] # "none" => ResidueScanReachable(n)

\* ------------------------------------------------------------ claims C11..C20
\* The scan walks place s: it exists and every directory above it, up to
\* its scan root, is a real directory.
RECURSIVE Walked(_, _)
Walked(t, s) ==
    /\ t[s].kind # "absent"
    /\ Parent(s) # 0 => (t[Parent(s)].kind = "dir" /\ Walked(t, Parent(s)))

\* name holds keyword k when case is disregarded.
HoldsIgnoringCase(name, k) ==
    \E i \in 0..(Len(name) - Len(k)) :
        \A j \in 1..Len(k) : Lower(name[i + j]) = Lower(k[j])

RetPaths == {rscan.ret[i].path : i \in DOMAIN rscan.ret}

\* C11: scan returns an entry for a path exactly when the path is a file or
\* directory the walk reaches under a scan root and its basename holds,
\* case disregarded, one of the generated keywords; when nothing matches
\* the result is the empty list.
C11_ScanListsExactlyTheMatches ==
    rscan.pc = "done" =>
        LET t == rscan.tree
            hits == {s \in Slots : /\ Walked(t, s)
                                   /\ \E k \in rscan.keywords :
                                          HoldsIgnoringCase(t[s].name, k)}
        IN  /\ RetPaths = {SlotPath(t, s) : s \in hits}
            /\ Len(rscan.ret) = Cardinality(hits)
            /\ hits = {} => rscan.ret = <<>>

\* A finished scan that lists a file matching only when case is
\* disregarded, passes over a walked file that does not match, and passes
\* over a matching name that lies behind a link to a directory.
C11_Witness ==
    /\ rscan.pc = "done"
    /\ \E i \in DOMAIN rscan.ret : rscan.ret[i].slot = 3 /\ rscan.tree[3].name = Str.Ab
    /\ rscan.tree[4].kind = "file" /\ rscan.tree[4].name = Str.b
    /\ rscan.tree[5].kind = "file" /\ rscan.tree[5].name = Str.ab

\* The variants the keyword set is said to hold for an identifier.
SeparatorVariants(name) ==
    {name, Replace(name, "-", <<>>), Replace(name, "_", <<>>),
     Replace(Replace(name, "-", <<" ">>), "_", <<" ">>)}

\* C12: the keyword set of an identifier holds the identifier, its variant
\* without hyphens, its variant without underscores and its variant with
\* spaces for separators, and the upper-case and lower-case form of each.
C12_KeywordsClosedOverVariants ==
    kw.pc = "done" =>
        \A v \in SeparatorVariants(kw.name) :
            {v, UpperStr(v), LowerStr(v)} \subseteq kw.keywords

\* Categories by what they are for.
ConfigCategories == {Category.system_config, Category.user_config}
LogCategories == {Category.system_log}
CacheCategories == {Category.user_cache}
DataCategories == {Category.system_data, Category.user_data}

\* The path has a directory named n above its last component.
InDirectory(comps, n) == \E i \in 1..(Len(comps) - 1) : comps[i] = n
\* Some component of the path holds '.config'.
HoldsDotConfig(comps) == \E i \in DOMAIN comps : Contains(comps[i], Str.dotconfig)
\* The last component ends in '.log', case disregarded.
LogFileName(comps) ==
    LET n == comps[Len(comps)]
    IN  /\ Len(n) >= 4
        /\ \A j \in 1..4 : Lower(n[Len(n) - 4 + j]) = <<".", "l", "o", "g">>[j]

\* C13 as stated: configuration for a configuration category, a path
\* rooted in /etc or a path holding '.config'; else log for a log category
\* or a file name ending in '.log'; else cache for a cache category or a
\* path holding '/cache/'; else data for a data category; else other.
C13_KindByStatedRules ==
    cls.pc = "done" =>
        cls.kind =
            IF \/ cls.category \in ConfigCategories
               \/ cls.comps[1] = Str.etc
               \/ HoldsDotConfig(cls.comps)
            THEN "CONFIG"
            ELSE IF cls.category \in LogCategories \/ LogFileName(cls.comps)
            THEN "LOG"
            ELSE IF cls.category \in CacheCategories \/ InDirectory(cls.comps, Str.cache)
            THEN "CACHE"
            ELSE IF cls.category \in DataCategories
            THEN "DATA"
            ELSE "OTHER"

\* C13, amended: configuration for a configuration category, a path with
\* a directory named etc anywhere above the candidate, or a path holding
\* '.config'; else log for a log category, a path with a directory named
\* log above the candidate, or a name ending in '.log' in any case; else
\* cache for a cache category or a path with a directory named cache above
\* the candidate; else data for a data category; else other.
C13_KindByFirstRule ==
    cls.pc = "done" =>
        cls.kind =
            IF \/ cls.category \in ConfigCategories
               \/ InDirectory(cls.comps, Str.etc)
               \/ HoldsDotConfig(cls.comps)
            THEN "CONFIG"
            ELSE IF \/ cls.category \in LogCategories
                    \/ InDirectory(cls.comps, Str.log)
                    \/ LogFileName(cls.comps)
            THEN "LOG"
            ELSE IF cls.category \in CacheCategories \/ InDirectory(cls.comps, Str.cache)
            THEN "CACHE"
            ELSE IF cls.category \in DataCategories
            THEN "DATA"
            ELSE "OTHER"

\* A candidate of a data category that lies below a directory named log,
\* has no name ending in '.log', and is classified log.
C13_Witness ==
    /\ cls.pc = "done"
    /\ cls.category = Category.user_data
    /\ InDirectory(cls.comps, Str.log)
    /\ ~LogFileName(cls.comps)
    /\ cls.kind = "LOG"

\* Place c lies in the directory at place s, directly or further down,
\* with only real directories on the way.
RECURSIVE Within(_, _, _)
Within(t, c, s) ==
    /\ Parent(c) # 0
    /\ t[Parent(c)].kind = "dir"
    /\ Parent(c) = s \/ Within(t, Parent(c), s)

RECURSIVE SumFileSizes(_)
SumFileSizes(S) ==
    IF S = {} THEN 0
    ELSE LET s == CHOOSE x \in S : TRUE IN FileSize(s) + SumFileSizes(S \ {s})

\* C14: the size reported for a candidate directory is the sum of the sizes
\* of the regular files, no symbolic links, that lie in it directly or
\* further down; bytes reached only through a symbolic link are not
\* counted.
C14_DirectorySizeSkipsLinks ==
    rscan.pc = "done" =>
        \A i \in DOMAIN rscan.ret :
            LET t == rscan.tree
                s == rscan.ret[i].slot
            IN  IsDirEntry(t[s].kind) =>
                    rscan.ret[i].size =
                        SumFileSizes({c \in Slots : t[c].kind = "file" /\ Within(t, c, s)})

\* C15: in the list scan returns, the entries of one kind are contiguous,
\* and of two entries of one kind the one with the smaller path comes
\* first.
C15_OrderedByKindThenPath ==
    rscan.pc = "done" =>
        LET r == rscan.ret
        IN  /\ \A i \in DOMAIN r : \A j \in DOMAIN r :
                   (i < j /\ r[i].type = r[j].type) => StrLess(r[i].path, r[j].path)
            /\ \A i \in DOMAIN r : \A j \in DOMAIN r : \A k \in DOMAIN r :
                   (i < j /\ j < k /\ r[i].type = r[k].type) => r[j].type = r[i].type

\* A finished scan that returns two entries of one kind in the order
\* opposite to the one the walk found them in, next to an entry of
\* another kind.
C15_Witness ==
    /\ rscan.pc = "done"
    /\ \E i \in DOMAIN rscan.ret : \E j \in DOMAIN rscan.ret :
          /\ i < j
          /\ rscan.ret[i].type = rscan.ret[j].type
          /\ rscan.ret[i].slot = 5
          /\ rscan.ret[j].slot = 1
    /\ \E i \in DOMAIN rscan.ret : \E j \in DOMAIN rscan.ret :
          rscan.ret[i].type # rscan.ret[j].type

\* C16: the safety flags do not enter clean: it calls _delete_path for
\* every selected entry, in list order, whether flagged safe or not, and
\* counts and returns what those calls did.
C16_SafetyFlagIsAdvisory ==
    cpc = "done" =>
        LET chosen == SelectSeq(files, LAMBDA f : f.is_selected)
            done == {i \in DOMAIN results : results[i].res = "True"}
        IN  /\ Len(results) = Len(chosen)
            /\ \A i \in DOMAIN results :
                 /\ results[i].path = chosen[i].path
                 /\ results[i].before.kind = "file" => results[i].ops # <<>>
            /\ cret = <<TRUE, Cardinality(done),
                        Bytes({results[i].path : i \in done})>>

\* A finished clean that deleted a selected entry flagged unsafe and a
\* selected entry flagged safe.
C16_Witness ==
    /\ cpc = "done"
    /\ \E i \in DOMAIN results : \E j \in DOMAIN results :
          /\ ~safe[results[i].path] /\ results[i].res = "True"
          /\ safe[results[j].path] /\ results[j].res = "True"

\* C17: with skip_system_packages set, scan_all returns no package named
\* in SYSTEM_PACKAGES, whatever its source; with it unset, every such
\* package a requested backend reports as installed is returned.
C17_SystemPackagesSkipped ==
    inv.pc = "done" =>
        /\ inv.skip =>
              \A i \in DOMAIN inv.ret : inv.ret[i].name \notin SYSTEM_PACKAGES
        /\ ~inv.skip =>
              /\ "APT" \in inv.sources =>
                    \A l \in DOMAIN inv.host.apt :
                        inv.host.apt[l].installed =>
                            \E i \in DOMAIN inv.ret :
                                inv.ret[i] = Pkg(inv.host.apt[l].name, "APT")
              /\ "Snap" \in inv.sources =>
                    \A l \in DOMAIN inv.host.snap :
                        \E i \in DOMAIN inv.ret :
                            inv.ret[i] = Pkg(inv.host.snap[l], "Snap")

\* The reports scan_all made when a source finished, in order.
FinishReports == SelectSeq(inv.progress, LAMBDA e : e.phase = "finish")

\* C18: for k >= 1 requested sources the percent reported when the i-th
\* of them finishes is i*100/k, the percents never decrease, and the last
\* report is 100.
C18_EqualProgressBands ==
    (inv.pc = "done" /\ inv.sources # {}) =>
        LET k == Cardinality(inv.sources)
        IN  /\ Len(FinishReports) = k
            /\ \A i \in DOMAIN FinishReports :
                   FinishReports[i].percent = (i * 100) \div k
            /\ \A i \in DOMAIN inv.progress : \A j \in DOMAIN inv.progress :
                   i < j => inv.progress[i].percent <= inv.progress[j].percent
            /\ inv.progress[Len(inv.progress)].percent = 100

\* The listed paths force_remove_package has to delete: regular files and
\* directories found empty.
Deletable == SelectSeq(listed, LAMBDA k : k \in {"file", "emptydir"})
\* The rm / rmdir commands force_remove_package ran.
Removals == SelectSeq(ucmds, LAMBDA c : c.cmd \in {"pkexec_rm", "pkexec_rmdir"})

\* C19: force_remove_package runs a delete for each listed regular file
\* and each listed empty directory, none for another listed path, and the
\* count it reports is the number of listed paths that were removed.
C19_DeletedCountIsWhatWasRemoved ==
    (ucall = "force_remove" /\ Len(ucmds) >= 1 /\ ucmds[1].out = "rc0") =>
        /\ Len(Removals) = Len(Deletable)
        /\ \A i \in DOMAIN Removals :
               Removals[i].cmd = IF Deletable[i] = "file" THEN "pkexec_rm"
                                 ELSE "pkexec_rmdir"
        /\ udeleted = Cardinality({i \in DOMAIN Removals : Removals[i].out = "rc0"})

\* C20: no two packages in the list scan_all returns have the same
\* identifier and the same source.
C20_IdentifierUniqueWithinSource ==
    inv.pc = "done" =>
        \A i \in DOMAIN inv.ret : \A j \in DOMAIN inv.ret :
            i # j => inv.ret[i] # inv.ret[j]


\* ------------------------------------------------------------ claims C21..C30
\* The error callback of the Cleaner a clean_task makes: the task calls
\* set_progress_callback only, so error_callback keeps the None of __init__.
CleanTaskErrorCallback == "None"

\* Cleaner._report_error, applied to the reports clean made: they go to
\* the error callback if there is one.
ReportedErrors(evs) ==
    IF CleanTaskErrorCallback = "None" THEN <<>> ELSE SelectSeq(evs, IsError)

\* What error_cb of the progress dialog's thread passed on so far in a
\* cleanup: the reports of the Cleaner, then clean_task's own
\* error_cb("清理失败") when clean returned a false flag.
ErrorStream ==
    ReportedErrors(events)
        \o (IF cret # <<>> /\ ~cret[1] THEN <<ErrorEv("error", 0)>> ELSE <<>>)

\* C21: when a cleanup run started from a dialog completes, an error event
\* has reached the progress dialog for every selected path whose deletion
\* failed.
C21_FailedDeletionsReachTheDialog ==
    (task.kind = "clean" /\ task.state = "complete") =>
        \A i \in DOMAIN results :
            results[i].res # "True" =>
                \E e \in DOMAIN ErrorStream : ErrorStream[e].path \in {0, results[i].path}

\* C22: a privileged delete command is run for a path only when a direct
\* deletion by the current user would fail for lack of permission.
C22_PrivilegedOnlyWhenNeeded ==
    \A c \in Calls : PrivOps(c) # <<>> => c.before.d = "perm"

\* C28: after a deletion call that reported success nothing exists at the
\* path, neither file, directory nor symbolic link, dangling or not.
C28_SuccessMeansGone ==
    \A i \in DOMAIN results :
        results[i].res = "True" => fs[results[i].path].kind = "missing"

\* C29: the success flag clean returns is true only if every selected
\* entry was deleted.
C29_OkOnlyIfAllDeleted ==
    (cpc = "done" /\ cret[1]) =>
        \A i \in DOMAIN selected_files :
            /\ i \in DOMAIN results
            /\ results[i].res = "True"

\* C30: an APT uninstall whose removal command exits 0 returns ok = true,
\* whatever the service stop and the autoremove did.
C30_ResultFollowsRemoval ==
    (/\ ucall = "uninstall"
     /\ upkg.source = "APT"
     /\ Len(ucmds) >= 2
     /\ ucmds[2].out = "rc0") => uret = Pair(TRUE)


\* A ScanThread was started and its result has not been loaded yet.
ScanInFlight == \E t \in 1..MaxScans : scans[t].pc \notin {"idle", "done"}

\* C26: no uninstall or force-uninstall is started while an inventory scan
\* is in flight.
C26_NoUninstallDuringScan ==
    [][(task.kind # "uninstall" /\ task'.kind = "uninstall") => ~ScanInFlight]_vars


\* C23: with the AppImage source requested, scan_all returns one AppImage
\* package for each *.appimage file of the searched directories.
C23_AppImagesListed ==
    (inv.pc = "done" /\ "AppImage" \in inv.sources) =>
        Len(SelectSeq(inv.ret, LAMBDA q : q.source = "AppImage")) = inv.host.appimages

\* C24: is_system_package(name) is true exactly when name is in the static
\* list or the query succeeded and the package has more than 50 installed
\* reverse-dependents.
C24_CriticalExactly ==
    (call.pc = "done" /\ call.fn = "is_system_package") =>
        (call.ret <=> (\/ call.name \in system_packages
                       \/ call.out = "rc0" /\ call.deps > 50))

\* The entries of the call's cache whose key equals the identifier once the
\* case is folded and hyphens and underscores are removed on both sides.
EqualEntries ==
    {i \in DOMAIN call.cache :
        StripSeparators(LowerStr(call.cache[i].key))
            = StripSeparators(LowerStr(call.name))}

\* C25: when dpkg names no launcher file and a cache key equals the
\* identifier after stripping, get_app_name returns the name of such an
\* entry (the localized name when it has one), whatever the identifier's
\* length.
C25_StrippedKeyMatchWins ==
    (/\ call.pc = "done" /\ call.fn = "get_app_name" /\ call.dpkg = 0
     /\ EqualEntries # {}) =>
        call.ret \in {AppName(call.cache[i]) : i \in EqualEntries}

\* C27: in a scan result no entry's path lies inside the directory of
\* another entry of the same result.
C27_NoNestedEntries ==
    rscan.pc = "done" =>
        \A i, j \in DOMAIN rscan.ret :
            ~Within(rscan.tree, rscan.ret[i].slot, rscan.ret[j].slot)

====
